---- MODULE Spec2Model ----
(***************************************************************************)
(* AutoOps task orchestration core.                                        *)
(*                                                                         *)
(*   Spec    the TaskManager of src/src/utils/task_manager.py: submit,     *)
(*           start, the worker loop, _execute_task and cancel_task, with   *)
(*           one step per stretch of code between two awaits.  The         *)
(*           workflow run inside _execute_task is one step whose outcome   *)
(*           is what asyncio.wait_for hands back: returned, timed out or   *)
(*           raised.                                                       *)
(*   SpecQ   Spec restricted to the admission queue; SpecRun: Spec without *)
(*           cancel_task calls.                                            *)
(*   SpecWF  one _execute_task call traced through the workflow graph of   *)
(*           src/src/agents/orchestrator.py, node by node.                 *)
(*   SpecExec      one ExecutorAgent._execute_operations call of           *)
(*           src/src/agents/executor.py: semaphore, attempts, gather.      *)
(*   SpecRollback  one ExecutorAgent.rollback_operations call.             *)
(*   SpecPlan      PlannerAgent.validate_plan applied to a plan.           *)
(***************************************************************************)
EXTENDS Naturals, Integers, Sequences, FiniteSets, TLC

\* Bounds of the model.
MaxTasks == 2
MaxWorkers == 2
MaxOps == 2
MaxExecutorRuns == 5
MaxExecOps == 3
MaxResults == 3
MaxPlanOps == 3
MaxClock == 3
MaxLimit == 2
\* settings.max_concurrent_tasks, the size of the executor's semaphore
max_concurrent_operations == 2

\* SimpleTaskManager(max_concurrent_tasks): the size of its semaphore
max_concurrent_tasks == 1

\* cancel_task calls made on a SimpleTaskManager
MaxCancelCalls == 3

\* settings.retry_max_attempts
retry_max_attempts == 3

\* stop_after_attempt(3) of _execute_single_operation
stop_after_attempt == 3

VARIABLES
    is_running,     \* TaskManager.is_running
    workers,        \* worker routine w: [pc, task]
    task_queue,     \* TaskManager.task_queue, entries waiting (indices of tasks)
    running_tasks,  \* TaskManager.running_tasks: task_id -> entry (0: no key)
    tasks,          \* the Task objects in memory, in order of construction
    exec,           \* the asyncio task running _execute_task for each Task
    redis,          \* the durable store: task_id -> persisted dict
    submitting,     \* submit_task calls between their persist and their put
    cancel,         \* the cancel_task call in progress, or the last one made:
                    \* [pc, task_id, task, found, early, ret]
    put_log,        \* history: entries in the order their put completed
    get_log,        \* history: entries in the order workers dequeued them
    reaper,         \* the routine running _cleanup_completed_tasks: its pc
    stopper,        \* the stop() call in progress, or the last one made: [pc]
    store_ok,       \* whether calls to the store succeed at the moment
    reply,          \* what the last read of the public interface returned
    now,            \* the clock datetime.utcnow() reads
    sweep,          \* the reaper's cycle: [cutoff, tasks]: the loaded Tasks it
                    \* has still to delete
    reaped,         \* history: the records deleted by the reaper, as they
                    \* were in the store, and the time of the deletion
    wf_pc,          \* SpecWF: where the traced _execute_task call stands
    wf_task,        \* SpecWF: the Task object of the traced call
    wf_persisted,   \* SpecWF: the dict last persisted for that task
    state,          \* SpecWF: the AutoOpsState of the workflow run
    wf_obs,         \* SpecWF, history: [gen_calls, issues, executor_runs,
                    \* failures, operations_run]: failed backend operations
                    \* and operations handed to _execute_operations
    ex_operations,  \* SpecExec: the list passed to _execute_operations
    op_run,         \* SpecExec: coroutine of operation i: [pc, attempts]
    semaphore,      \* SpecExec: the counter of the asyncio.Semaphore
    gathered,       \* SpecExec: the list asyncio.gather is filling
    execution_results, \* SpecExec: the list _execute_operations returns
    ex_obs,         \* SpecExec, history: [first_done, returned, cancelled, in_flight]
    rb_results,     \* SpecRollback: the list passed to rollback_operations
    rb,             \* SpecRollback: the walk: [pc, pos, attempt_number]
    rb_issued,      \* SpecRollback, history: the deletes issued, with attempts
    rollback_results,  \* SpecRollback: the list rollback_operations returns
    vp_plan,        \* SpecPlan: the plan passed to validate_plan
    vp,             \* SpecPlan: [pc, issues]
    rt,             \* SpecRoundTrip: [pc, task, loaded]: a Task object
                    \* persisted and loaded again
    simple          \* SpecSimple: the SimpleTaskManager: [tasks,
                    \* running_tasks, semaphore, waiters] and the history
                    \* of its cancel_task calls [calls, returned_true,
                    \* true_on_terminal]

wfvars == <<wf_pc, wf_task, wf_persisted, state, wf_obs>>

exvars == <<ex_operations, op_run, semaphore, gathered, execution_results, ex_obs>>

rbvars == <<rb_results, rb, rb_issued, rollback_results>>

vpvars == <<vp_plan, vp>>

agentvars == <<exvars, rbvars, vpvars>>

rtvars == <<rt>>

stmvars == <<simple>>

libvars == <<rtvars, stmvars>>

svcvars == <<reaper, stopper, store_ok, reply, now, sweep, reaped>>

tmvars == <<is_running, workers, task_queue, running_tasks, tasks, exec, redis,
            submitting, cancel, put_log, get_log, svcvars>>

vars == <<tmvars, wfvars, agentvars, libvars>>

----------------------------------------------------------------------------
\* Data

Priorities == {"critical", "high", "normal", "low"}
TerminalStatuses == {"completed", "failed", "cancelled"}
TaskIds == 1..MaxTasks
Workers == 1..MaxWorkers

\* The admission order the specification asks for (critical > high > normal > low).
PriorityRank(p) ==
    CASE p = "critical" -> 3
      [] p = "high"     -> 2
      [] p = "normal"   -> 1
      [] p = "low"      -> 0

\* Python's None where a datetime or a number is expected; datetimes are
\* the clock values 1..MaxClock
None == 0

\* settings.task_timeout_seconds
task_timeout_seconds == 300

\* Task.__init__, called when the clock reads `now`
Task(task_id, request, priority, timeout) ==
    [task_id |-> task_id, request |-> request, priority |-> priority,
     status |-> "pending",
     timeout |-> IF timeout = None THEN task_timeout_seconds ELSE timeout,
     created_at |-> now, started_at |-> None, completed_at |-> None,
     error |-> "none", retry_count |-> 0]

\* Local variable `task` of a cancel_task call before _load_task has returned.
NoTask == [task_id |-> 0, request |-> "", priority |-> "normal",
           status |-> "none", timeout |-> None, created_at |-> None,
           started_at |-> None, completed_at |-> None, error |-> "none",
           retry_count |-> 0]

\* datetime.isoformat
isoformat(t) == "T" \o ToString(t)

\* datetime.fromisoformat
fromisoformat(s) == CHOOSE t \in 1..MaxClock : isoformat(t) = s

\* Task.to_dict; a None entry of the dict is written "None"
to_dict(t) ==
    [task_id |-> t.task_id, request |-> t.request, priority |-> t.priority,
     status |-> t.status, timeout |-> t.timeout,
     created_at |-> isoformat(t.created_at),
     started_at |-> IF t.started_at # None
                    THEN isoformat(t.started_at) ELSE "None",
     completed_at |-> IF t.completed_at # None
                      THEN isoformat(t.completed_at) ELSE "None",
     error |-> t.error, retry_count |-> t.retry_count]

\* Mutant: only the constructor call of from_dict
from_dict_init_only(d) == Task(d.task_id, d.request, d.priority, d.timeout)

\* Task.from_dict
from_dict(d) ==
    [Task(d.task_id, d.request, d.priority, d.timeout) EXCEPT
        !.status = d.status,
        !.created_at = fromisoformat(d.created_at),
        !.started_at = IF d.started_at # "None"
                       THEN fromisoformat(d.started_at) ELSE None,
        !.completed_at = IF d.completed_at # "None"
                         THEN fromisoformat(d.completed_at) ELSE None,
        !.error = d.error, !.retry_count = d.retry_count]

\* Mutant: the record is not written
_persist_nothing(store, t) == store

\* TaskManager._persist_task: SET autoops:task:<id>; a failed SET is swallowed
\* (`except Exception: pass`) and leaves the store as it was
_persist_task(store, t) ==
    IF ~store_ok THEN store
    ELSE IF t.task_id \in DOMAIN store
    THEN [store EXCEPT ![t.task_id] = to_dict(t)]
    ELSE [k \in DOMAIN store \cup {t.task_id} |->
            IF k = t.task_id THEN to_dict(t) ELSE store[k]]

\* TaskManager._load_task: GET autoops:task:<id>, None when the key is absent
\* or the GET fails
_load_task(store, task_id) ==
    IF store_ok /\ task_id \in DOMAIN store
    THEN from_dict(store[task_id]) ELSE NoTask

\* uuid4(): an identifier no earlier task carries
uuid4 ==
    CHOOSE i \in TaskIds :
        /\ \A e \in 1..Len(tasks) : tasks[e].task_id # i
        /\ \A j \in TaskIds : (\A e \in 1..Len(tasks) : tasks[e].task_id # j) => i <= j

\* Mutant: a LIFO queue
QueuePutFront(q, e) == <<e>> \o q

\* asyncio.Queue: put appends, get takes the oldest entry
QueuePut(q, e) == Append(q, e)

QueueGet(q) == Head(q)

QueueRest(q) == Tail(q)

\* asyncio.Task.cancel() on the task running _execute_task: CancelledError is
\* raised at the await the task is suspended in.  A task that has not run yet
\* never runs its body; inside wait_for the error passes `except Exception` and
\* reaches the finally block; inside the finally block it ends the task.
CancelledPc(pc) ==
    CASE pc = "created"    -> "cancelled"
      [] pc = "running"    -> "finalizing_cancelled"
      [] pc = "finalizing" -> "cancelled"
      [] pc = "finalizing_cancelled" -> "cancelled"
      [] OTHER             -> pc

\* _execute_task, lines 259-260
ExecutingBranch(t) == [t EXCEPT !.status = "executing", !.started_at = now]

\* _execute_task, lines 270-272: process_request returned a state
CompletedBranch(t) == [t EXCEPT !.status = "completed", !.completed_at = now]

\* Mutant: the timeout leaves the task to be retried
TimeoutBranchRetry(t) == [t EXCEPT !.status = "pending", !.error = "timeout"]

\* _execute_task, lines 284-287: except asyncio.TimeoutError
TimeoutBranch(t) ==
    [t EXCEPT !.status = "failed", !.error = "timeout", !.completed_at = now]

\* _execute_task, lines 291-294: except Exception
ExceptionBranch(t) ==
    [t EXCEPT !.status = "failed", !.error = "exception", !.completed_at = now]

\* cancel_task, lines 194-195
CancelledBranch(t) == [t EXCEPT !.status = "cancelled", !.completed_at = now]

\* Mutant: the worker loop ends with the run
AfterAwaitBreak(execpc, running) == "exited"

\* _worker, lines 240-250: what the worker does once `await execution_task`
\* ends: CancelledError breaks the loop, otherwise `while self.is_running`
AfterAwait(execpc, running) ==
    IF execpc = "cancelled" THEN "exited"
    ELSE IF running THEN "get" ELSE "exited"

\* The operations plans are drawn from
Operation(action, resource_type, resource_name, namespace) ==
    [action |-> action, resource_type |-> resource_type,
     resource_name |-> resource_name, namespace |-> namespace]

Operations ==
    {Operation("CREATE", "namespace", "prod", "default"),
     Operation("CREATE", "deployment", "web", "prod"),
     Operation("CREATE", "deployment", "web", "default"),
     Operation("SCALE", "deployment", "web", "default")}

\* ExecutionResult(operation=..., status=...)
ExecutionResult(operation, status) ==
    [operation |-> operation, status |-> status]

\* ExecutionPlan; state.execution_plan is None until the planner attaches one
ExecutionPlan(operations) == [present |-> TRUE, operations |-> operations]

NoPlan == [present |-> FALSE, operations |-> <<>>]

Plans ==
    {ExecutionPlan(ops) : ops \in UNION {[1..n -> Operations] : n \in 1..MaxOps}}

\* AutoOpsState as process_request constructs it
AutoOpsState ==
    [planner_status |-> "pending", executor_status |-> "pending",
     execution_plan |-> NoPlan, execution_results |-> <<>>, errors |-> <<>>,
     retry_count |-> 0, current_step |-> "initialized"]

\* AutoOpsState.add_error
add_error(st, error) == [st EXCEPT !.errors = Append(@, error)]

\* PlannerAgent.validate_plan.  First loop: a CREATE with a resource name
\* (not None, not empty) is filed under the string
\* "<namespace>/<resource_type>/<resource_name>", with an issue when that string
\* is already filed.  Second loop: an issue for each CREATE, other than of a
\* namespace, into a namespace other than "default" that no CREATE namespace
\* of the plan names.  A resource name of "" stands for None or "".
validate_plan(plan) ==
    LET ops == plan.operations
        idx == [i \in 1..Len(ops) |-> i]
        key(op) == op.namespace \o "/" \o op.resource_type \o "/" \o op.resource_name
        Filed(op) == op.action = "CREATE" /\ op.resource_name # ""
        Duplicate(i) ==
            /\ Filed(ops[i])
            /\ \E j \in 1..(i - 1) : Filed(ops[j]) /\ key(ops[j]) = key(ops[i])
        ns_created(i) ==
            \E j \in 1..Len(ops) :
                /\ ops[j].action = "CREATE"
                /\ ops[j].resource_type = "namespace"
                /\ ops[j].resource_name = ops[i].namespace
        NsMissing(i) ==
            /\ ops[i].action = "CREATE"
            /\ ops[i].resource_type # "namespace"
            /\ ops[i].namespace # "default"
            /\ ~ns_created(i)
        duplicates == SelectSeq(idx, Duplicate)
        missing == SelectSeq(idx, NsMissing)
    IN [k \in 1..Len(duplicates) |->
            "Duplicate resource creation: " \o key(ops[duplicates[k]])]
       \o [k \in 1..Len(missing) |->
            "Namespace '" \o ops[missing[k]].namespace \o "' not created before use"]

\* AutoOpsOrchestrator._should_execute
_should_execute(st) ==
    IF st.planner_status = "failed" THEN "error"
    ELSE IF st.planner_status = "completed" /\ st.execution_plan.present
         THEN "execute"
         ELSE "end"

\* Mutant: validation never holds a plan back
_should_proceed_always(st) == "execute"

\* AutoOpsOrchestrator._should_proceed_with_execution
_should_proceed_with_execution(st) ==
    IF st.errors # <<>> THEN "error"
    ELSE IF st.current_step = "validated" THEN "execute" ELSE "end"

\* Mutant: every execution is routed to the error handler
_check_execution_always_error(st) == "error"

\* AutoOpsOrchestrator._check_execution_result
_check_execution_result(st) ==
    IF st.executor_status = "failed"
    THEN IF st.retry_count < retry_max_attempts THEN "retry" ELSE "error"
    ELSE IF st.executor_status = "completed" THEN "success" ELSE "error"

\* The edges of _create_workflow: the node a routing result leads to
PlannerEdge(r) ==
    CASE r = "execute" -> "validator" [] r = "error" -> "error_handler"
      [] r = "end" -> "END"

ValidatorEdge(r) ==
    CASE r = "execute" -> "executor" [] r = "error" -> "error_handler"
      [] r = "end" -> "END"

ExecutorEdge(r) ==
    CASE r = "success" -> "END" [] r = "error" -> "error_handler"
      [] r = "retry" -> "executor"

\* No read has been made yet
NoReply == [call |-> "none", args |-> <<>>, failed |-> FALSE, value |-> <<>>]

\* The reaper is not in a cycle
NoSweep == [cutoff |-> 0, tasks |-> <<>>]

\* No cancel_task call has been made yet
NoCall == [pc |-> "idle", task_id |-> 0, task |-> NoTask, found |-> "none",
           early |-> FALSE, ret |-> "none"]

----------------------------------------------------------------------------
\* The state after TaskManager.__init__

InitTaskManager ==
    /\ now = 1
    /\ is_running = FALSE
    /\ workers = [w \in Workers |-> [pc |-> "none", task |-> 0]]
    /\ task_queue = <<>>
    /\ running_tasks = [i \in TaskIds |-> 0]
    /\ tasks = <<>>
    /\ exec = <<>>
    /\ redis = <<>>
    /\ submitting = {}
    /\ cancel = NoCall
    /\ put_log = <<>>
    /\ get_log = <<>>
    /\ reaper = "none"
    /\ stopper = [pc |-> "idle"]
    /\ store_ok = TRUE
    /\ reply = NoReply
    /\ sweep = NoSweep
    /\ reaped = <<>>
    /\ wf_pc = "created"
    /\ wf_task = Task(1, "request", "normal", None)
    /\ wf_persisted = to_dict(wf_task)
    /\ state = AutoOpsState
    /\ wf_obs = [gen_calls |-> <<>>, issues |-> -1, executor_runs |-> 0,
                 failures |-> 0, operations_run |-> 0]

\* No _execute_operations call
InitExecutorIdle ==
    /\ ex_operations = <<>>
    /\ op_run = <<>>
    /\ semaphore = max_concurrent_operations
    /\ gathered = <<>>
    /\ execution_results = <<>>
    /\ ex_obs = [first_done |-> 0, returned |-> FALSE, cancelled |-> FALSE,
                 in_flight |-> {}]

\* No rollback_operations call
InitRollbackIdle ==
    /\ rb_results = <<>>
    /\ rb = [pc |-> "walk", pos |-> 0, attempt_number |-> 0]
    /\ rb_issued = <<>>
    /\ rollback_results = <<>>

\* No validate_plan call
InitPlanIdle ==
    /\ vp_plan = NoPlan
    /\ vp = [pc |-> "called", issues |-> <<>>]

\* No Task object under test
\* SimpleTaskManager.__init__ (task_manager_simple.py lines 66-71); a task
\* slot holds the Task's status and the asyncio task of its _execute_task
\* routine: where the routine is suspended and whether a cancellation has
\* been requested and not yet raised in it
NoSimpleTask == [status |-> "none", routine |-> "none", must_cancel |-> FALSE]

InitSimpleTaskManager ==
    simple = [tasks |-> [i \in TaskIds |-> NoSimpleTask],
              running_tasks |-> {},
              semaphore |-> max_concurrent_tasks,
              waiters |-> <<>>,
              calls |-> 0,
              returned_true |-> [i \in TaskIds |-> 0],
              true_on_terminal |-> FALSE]

InitRoundTripIdle == rt = [pc |-> "idle", task |-> NoTask, loaded |-> NoTask]

\* No call on the helpers outside the task manager's life cycle
InitLibIdle == InitRoundTripIdle /\ InitSimpleTaskManager

Init ==
    /\ InitTaskManager
    /\ InitExecutorIdle
    /\ InitRollbackIdle
    /\ InitPlanIdle
    /\ InitLibIdle

----------------------------------------------------------------------------
\* start line 121: `num_workers or settings.max_concurrent_tasks`
num_workers(n) == IF n = 0 THEN max_concurrent_operations ELSE n

\* start lines 118-127: nothing when already running, else one routine
\* running _worker per worker
start_workers(ws, running, n) ==
    IF running THEN ws
    ELSE [w \in Workers |->
            IF w <= num_workers(n) THEN [pc |-> "get", task |-> 0] ELSE ws[w]]

\* start lines 118-119, 129-131: the routine running _cleanup_completed_tasks
start_reaper(r, running) == IF running THEN r ELSE "sleep"

\* TaskManager.start(num_workers); n = 0: num_workers is None or 0.
\* Callers make one start or stop call at a time.
start(n) ==
    /\ stopper.pc # "gather"
    /\ is_running' = TRUE
    /\ workers' = start_workers(workers, is_running, n)
    /\ reaper' = start_reaper(reaper, is_running)
    /\ stopper' = IF is_running THEN stopper ELSE [pc |-> "idle"]
    /\ UNCHANGED <<task_queue, running_tasks, tasks, exec, redis, submitting,
                   cancel, put_log, get_log, store_ok, reply,
                   now, sweep, reaped,
                   wfvars, agentvars, libvars>>

\* TaskManager.submit_task up to `await self._persist_task(task)`.
\* arg = 0: task_id=None, or an identifier of the caller's that no task carries;
\* arg = k: the caller passes the task_id that the k-th task carries.
submit_task(priority, arg) ==
    /\ Len(tasks) < MaxTasks
    /\ LET task_id == IF arg = 0 THEN uuid4 ELSE tasks[arg].task_id
           task == Task(task_id, "request", priority, None)
       IN /\ tasks' = Append(tasks, task)
          /\ exec' = Append(exec, [pc |-> "none", worker |-> 0])
          /\ redis' = _persist_task(redis, task)
          /\ submitting' = submitting \cup {Len(tasks) + 1}
    /\ UNCHANGED <<is_running, workers, task_queue, running_tasks, cancel,
                   put_log, get_log,
                   svcvars, wfvars, agentvars, libvars>>

\* TaskManager.submit_task from `await self.task_queue.put(...)` to the return
submit_put(e) ==
    /\ e \in submitting
    /\ task_queue' = QueuePut(task_queue, e)
    /\ put_log' = Append(put_log, e)
    /\ submitting' = submitting \ {e}
    /\ UNCHANGED <<is_running, workers, running_tasks, tasks, exec, redis,
                   cancel, get_log,
                   svcvars, wfvars, agentvars, libvars>>

\* TaskManager._worker: queue.get returns, the execution task is created and
\* registered, the worker awaits it
worker_get(w) ==
    /\ workers[w].pc = "get"
    /\ is_running
    /\ task_queue # <<>>
    /\ LET e == QueueGet(task_queue)
       IN /\ task_queue' = QueueRest(task_queue)
          /\ exec' = [exec EXCEPT ![e] = [pc |-> "created", worker |-> w]]
          /\ running_tasks' = [running_tasks EXCEPT ![tasks[e].task_id] = e]
          /\ workers' = [workers EXCEPT ![w] = [pc |-> "await", task |-> e]]
          /\ get_log' = Append(get_log, e)
    /\ UNCHANGED <<is_running, tasks, redis, submitting, cancel, put_log,
                   svcvars, wfvars, agentvars, libvars>>

\* Mutant: the worker leaves the entry in running_tasks
keep_running_task(registry, task_id) == registry

\* _worker lines 243-245: `del self.running_tasks[task.task_id]` when the key
\* is there
del_running_task(registry, task_id) == [registry EXCEPT ![task_id] = 0]

\* TaskManager._worker: `await execution_task` ends, the finally block runs
worker_resume(w) ==
    /\ workers[w].pc = "await"
    /\ LET e == workers[w].task
       IN /\ exec[e].pc \in {"done", "cancelled"}
          /\ running_tasks' = del_running_task(running_tasks, tasks[e].task_id)
          /\ workers' = [workers EXCEPT
                            ![w] = [pc |-> AfterAwait(exec[e].pc, is_running),
                                    task |-> e]]
    /\ UNCHANGED <<is_running, task_queue, tasks, exec, redis, submitting,
                   cancel, put_log, get_log,
                   svcvars, wfvars, agentvars, libvars>>

\* TaskManager._execute_task up to the first persist: status executing
execute_begin(e) ==
    /\ exec[e].pc = "created"
    /\ tasks' = [tasks EXCEPT ![e] = ExecutingBranch(tasks[e])]
    /\ redis' = _persist_task(redis, tasks'[e])
    /\ exec' = [exec EXCEPT ![e].pc = "running"]
    /\ UNCHANGED <<is_running, workers, task_queue, running_tasks, submitting,
                   cancel, put_log, get_log,
                   svcvars, wfvars, agentvars, libvars>>

\* TaskManager._execute_task: asyncio.wait_for(process_request) ends
execute_run(e, outcome) ==
    /\ exec[e].pc = "running"
    /\ tasks' = [tasks EXCEPT ![e] =
                    CASE outcome = "returned" -> CompletedBranch(tasks[e])
                      [] outcome = "timeout"  -> TimeoutBranch(tasks[e])
                      [] outcome = "raised"   -> ExceptionBranch(tasks[e])]
    /\ exec' = [exec EXCEPT ![e].pc = "finalizing"]
    /\ UNCHANGED <<is_running, workers, task_queue, running_tasks, redis,
                   submitting, cancel, put_log, get_log,
                   svcvars, wfvars, agentvars, libvars>>

\* TaskManager._execute_task: the persist of the finally block
execute_finally(e) ==
    /\ exec[e].pc \in {"finalizing", "finalizing_cancelled"}
    /\ redis' = _persist_task(redis, tasks[e])
    /\ exec' = [exec EXCEPT ![e].pc =
                    IF exec[e].pc = "finalizing" THEN "done" ELSE "cancelled"]
    /\ UNCHANGED <<is_running, workers, task_queue, running_tasks, tasks,
                   submitting, cancel, put_log, get_log,
                   svcvars, wfvars, agentvars, libvars>>

\* An identifier that exactly one submitted Task carries
UniqueId(id) == Cardinality({e \in 1..Len(tasks) : tasks[e].task_id = id}) = 1

\* TaskManager.cancel_task up to `await self._load_task(task_id)`.  A cancel
\* that reaches the execution task inside its last persist may find the SET
\* already sent (wrote) or not.  Callers make one cancel_task call at a time.
cancel_task(id, wrote) ==
    /\ cancel.pc \in {"idle", "returned"}
    /\ LET e == running_tasks[id]
       IN IF e # 0
          THEN /\ exec' = [exec EXCEPT ![e].pc = CancelledPc(exec[e].pc)]
               /\ running_tasks' = [running_tasks EXCEPT ![id] = 0]
               /\ wrote => exec[e].pc = "finalizing"
               /\ redis' = IF wrote THEN _persist_task(redis, tasks[e]) ELSE redis
          ELSE /\ ~wrote
               /\ UNCHANGED <<exec, running_tasks, redis>>
    /\ cancel' = [NoCall EXCEPT
            !.pc = "load", !.task_id = id,
            !.early = /\ UniqueId(id)
                      /\ \E e \in 1..Len(tasks) :
                            /\ tasks[e].task_id = id
                            /\ e \notin submitting
                            /\ exec[e].pc \notin {"done", "cancelled"}]
    /\ UNCHANGED <<is_running, workers, task_queue, tasks, submitting,
                   put_log, get_log,
                   svcvars, wfvars, agentvars, libvars>>

\* TaskManager.cancel_task: _load_task returns; `return False` when it is None
cancel_load ==
    /\ cancel.pc = "load"
    /\ LET task == _load_task(redis, cancel.task_id)
       IN cancel' = IF task = NoTask
                    THEN [cancel EXCEPT !.pc = "returned", !.ret = "false"]
                    ELSE [cancel EXCEPT !.pc = "persist", !.found = task.status,
                                        !.task = CancelledBranch(task)]
    /\ UNCHANGED <<is_running, workers, task_queue, running_tasks, tasks, exec,
                   redis, submitting, put_log, get_log,
                   svcvars, wfvars, agentvars, libvars>>

\* TaskManager.cancel_task: _persist_task, `return True`
cancel_persist ==
    /\ cancel.pc = "persist"
    /\ redis' = _persist_task(redis, cancel.task)
    /\ cancel' = [cancel EXCEPT !.pc = "returned", !.ret = "true"]
    /\ UNCHANGED <<is_running, workers, task_queue, running_tasks, tasks, exec,
                   submitting, put_log, get_log,
                   svcvars, wfvars, agentvars, libvars>>

\* The entries whose execution task a worker routine is awaiting
Awaited == {workers[w].task : w \in {v \in Workers : workers[v].pc = "await"}}

\* Task.cancel() on a routine running _worker: waiting for the queue it ends
\* at once (`except asyncio.CancelledError: break`); awaiting its execution
\* task it ends when that task, cancelled along with it, has ended
cancel_worker(w) == IF w.pc = "get" THEN [w EXCEPT !.pc = "exited"] ELSE w

\* _persist_task for each entry of a set
RECURSIVE persist_each(_, _)
persist_each(store, entries) ==
    IF entries = {} THEN store
    ELSE LET e == CHOOSE x \in entries : \A y \in entries : x <= y
         IN persist_each(_persist_task(store, tasks[e]), entries \ {e})

\* TaskManager.stop up to `await asyncio.gather(*self.workers, ...)`: every
\* routine of self.workers is cancelled.  An execution task reached inside
\* its last persist may have sent the SET already (wrote) or not.
stop_begin(wrote) ==
    /\ stopper.pc \in {"idle", "returned"}
    /\ is_running' = FALSE
    /\ workers' = [w \in Workers |-> cancel_worker(workers[w])]
    /\ exec' = [e \in 1..Len(exec) |->
                  IF e \in Awaited
                  THEN [exec[e] EXCEPT !.pc = CancelledPc(@)] ELSE exec[e]]
    /\ wrote => \E e \in Awaited : exec[e].pc = "finalizing"
    /\ redis' = IF wrote
                THEN persist_each(redis,
                        {e \in Awaited : exec[e].pc = "finalizing"})
                ELSE redis
    /\ reaper' = IF reaper \in {"sleep", "sweep"} THEN "exited" ELSE reaper
    /\ stopper' = [pc |-> "gather"]
    /\ UNCHANGED <<task_queue, running_tasks, tasks, submitting, cancel,
                   put_log, get_log, store_ok, reply, now, sweep, reaped,
                   wfvars, agentvars, libvars>>

\* Mutant: stop does not wait for the routines
gather_no_wait(ws, r) == TRUE

\* stop line 142: gather returns once every routine of self.workers has ended
gather_workers_done(ws, r) ==
    /\ \A w \in Workers : ws[w].pc \in {"none", "exited"}
    /\ r \in {"none", "exited"}

\* list.clear() on self.workers: the routines that have ended are gone, one
\* still running keeps running unlisted
clear(w) == IF w.pc = "exited" THEN [pc |-> "none", task |-> 0] ELSE w

\* TaskManager.stop from the return of gather: the execution tasks still
\* registered are cancelled, self.workers and self.running_tasks are cleared
stop_return ==
    /\ stopper.pc = "gather"
    /\ gather_workers_done(workers, reaper)
    /\ workers' = [w \in Workers |-> clear(workers[w])]
    /\ reaper' = IF reaper = "exited" THEN "none" ELSE reaper
    /\ exec' = [e \in 1..Len(exec) |->
                  IF \E id \in TaskIds : running_tasks[id] = e
                  THEN [exec[e] EXCEPT !.pc = CancelledPc(@)] ELSE exec[e]]
    /\ running_tasks' = [i \in TaskIds |-> 0]
    /\ stopper' = [pc |-> "returned"]
    /\ UNCHANGED <<is_running, task_queue, tasks, redis, submitting,
                   cancel, put_log, get_log, store_ok, reply,
                   now, sweep, reaped,
                   wfvars, agentvars, libvars>>

\* The store stops answering: every operation raises until it is back
store_down ==
    /\ store_ok
    /\ store_ok' = FALSE
    /\ UNCHANGED <<is_running, workers, task_queue, running_tasks, tasks, exec,
                   redis, submitting, cancel, put_log, get_log, reaper,
                   stopper, reply, now, sweep, reaped,
                   wfvars, agentvars, libvars>>

\* The store answers again
store_up ==
    /\ ~store_ok
    /\ store_ok' = TRUE
    /\ UNCHANGED <<is_running, workers, task_queue, running_tasks, tasks, exec,
                   redis, submitting, cancel, put_log, get_log, reaper,
                   stopper, reply, now, sweep, reaped,
                   wfvars, agentvars, libvars>>

\* TaskManager.get_task_status(task_id)
get_task_status(task_id) ==
    /\ LET task == _load_task(redis, task_id)
       IN reply' = [call |-> "get_task_status", args |-> <<task_id>>,
                    failed |-> ~store_ok,
                    value |-> IF task = NoTask THEN <<>>
                              ELSE <<to_dict(task)>>]
    /\ UNCHANGED <<is_running, workers, task_queue, running_tasks, tasks, exec,
                   redis, submitting, cancel, put_log, get_log, reaper,
                   stopper, store_ok, now, sweep, reaped,
                   wfvars, agentvars, libvars>>

\* The orders in which a store can list and serve keys, whole or cut short
KeyOrders(keys) ==
    {q \in UNION {[1..n -> keys] : n \in 0..Cardinality(keys)} :
        \A i, j \in 1..Len(q) : i # j => q[i] # q[j]}

\* A read of all keys.  failed: the KEYS call or one of the GET calls raises;
\* read: the keys whose GET had returned by then, in the order of the KEYS
\* answer (KEYS lists them in no particular order).
LoadAll(failed, read) ==
    /\ ~store_ok => failed /\ read = <<>>
    /\ failed => read = <<>> \/ {read[i] : i \in 1..Len(read)} # DOMAIN redis
    /\ ~failed => {read[i] : i \in 1..Len(read)} = DOMAIN redis

\* TaskManager._load_all_tasks: the Tasks of the keys read before the store
\* failed, or of all keys
_load_all_tasks(store, read) ==
    [i \in 1..Len(read) |-> from_dict(store[read[i]])]

\* len([t for t in tasks if t.status == status])
CountStatus(ts, status) ==
    Cardinality({i \in 1..Len(ts) : ts[i].status = status})

\* get_metrics lines 370-380
metrics(ts) ==
    <<Len(ts),
      CountStatus(ts, "pending"),
      CountStatus(ts, "executing"),
      CountStatus(ts, "completed"),
      CountStatus(ts, "failed"),
      CountStatus(ts, "cancelled"),
      Cardinality({w \in Workers : workers[w].pc # "none"})
         + (IF reaper = "none" THEN 0 ELSE 1),
      Cardinality({id \in TaskIds : running_tasks[id] # 0}),
      Len(task_queue)>>

\* TaskManager.get_metrics()
get_metrics(failed, read) ==
    /\ LoadAll(failed, read)
    /\ store_ok' = ~failed
    /\ reply' = [call |-> "get_metrics", args |-> <<>>, failed |-> failed,
                 value |-> metrics(_load_all_tasks(redis, read))]
    /\ UNCHANGED <<is_running, workers, task_queue, running_tasks, tasks, exec,
                   redis, submitting, cancel, put_log, get_log, reaper,
                   stopper, now, sweep, reaped,
                   wfvars, agentvars, libvars>>

\* list_tasks line 209: `[t for t in tasks if t.status == status]` when a
\* status is given
filter_status(ts, status) ==
    IF status = "None" THEN ts
    ELSE SelectSeq(ts, LAMBDA t : t.status = status)

\* list.sort keeps the order of the entries it has; this one puts t behind
\* the entries at least as new as t
insort(sorted, t) ==
    LET k == Cardinality({i \in 1..Len(sorted) :
                             sorted[i].created_at >= t.created_at})
    IN SubSeq(sorted, 1, k) \o <<t>> \o SubSeq(sorted, k + 1, Len(sorted))

\* Mutant: the entries in the order they were read
unsorted(ts) == ts

\* list_tasks line 212: tasks.sort(key=created_at, reverse=True), a stable
\* sort
RECURSIVE sort(_)
sort(ts) ==
    IF ts = <<>> THEN <<>>
    ELSE insort(sort(SubSeq(ts, 1, Len(ts) - 1)), ts[Len(ts)])

\* list_tasks line 214: tasks[:limit]; a negative limit counts from the end
slice(ts, limit) ==
    IF limit >= 0
    THEN SubSeq(ts, 1, IF limit < Len(ts) THEN limit ELSE Len(ts))
    ELSE SubSeq(ts, 1, IF Len(ts) + limit > 0 THEN Len(ts) + limit ELSE 0)

\* TaskManager.list_tasks(status, limit)
list_tasks(status, limit, failed, read) ==
    /\ LoadAll(failed, read)
    /\ store_ok' = ~failed
    /\ LET ts == sort(filter_status(_load_all_tasks(redis, read), status))
           page == slice(ts, limit)
       IN reply' = [call |-> "list_tasks", args |-> <<status, limit>>,
                    failed |-> failed,
                    value |-> [i \in 1..Len(page) |-> to_dict(page[i])]]
    /\ UNCHANGED <<is_running, workers, task_queue, running_tasks, tasks, exec,
                   redis, submitting, cancel, put_log, get_log, reaper,
                   stopper, now, sweep, reaped,
                   wfvars, agentvars, libvars>>

\* timedelta(hours=24), the retention window, in units of the clock
retention == 1

\* _cleanup_completed_tasks lines 311-312: the test a loaded Task passes to
\* be deleted
Expired(t, cutoff) ==
    /\ t.status \in {"completed", "failed", "cancelled"}
    /\ t.completed_at # None
    /\ t.completed_at < cutoff

\* TaskManager._delete_task: DEL autoops:task:<id>; a failed DEL is swallowed
_delete_task(store, task_id) ==
    IF ~store_ok THEN store
    ELSE [k \in DOMAIN store \ {task_id} |-> store[k]]

\* _cleanup_completed_tasks: the sleep ends, the cutoff is taken and all
\* tasks are loaded; the Tasks that pass the test are kept for deletion
reaper_wake(failed, read) ==
    /\ reaper = "sleep"
    /\ LoadAll(failed, read)
    /\ store_ok' = ~failed
    /\ sweep' = [cutoff |-> now - retention,
                 tasks |-> SelectSeq(_load_all_tasks(redis, read),
                                     LAMBDA t : Expired(t, now - retention))]
    /\ reaper' = "sweep"
    /\ UNCHANGED <<is_running, workers, task_queue, running_tasks, tasks, exec,
                   redis, submitting, cancel, put_log, get_log, stopper,
                   reply, now, reaped, wfvars, agentvars, libvars>>

\* _cleanup_completed_tasks: `await self._delete_task(task.task_id)` for the
\* next loaded Task that passed the test
reaper_delete ==
    /\ reaper = "sweep"
    /\ sweep.tasks # <<>>
    /\ LET task_id == Head(sweep.tasks).task_id
       IN /\ redis' = _delete_task(redis, task_id)
          /\ reaped' = IF store_ok /\ task_id \in DOMAIN redis
                       THEN Append(reaped, [record |-> redis[task_id],
                                            at |-> now])
                       ELSE reaped
    /\ sweep' = [sweep EXCEPT !.tasks = Tail(@)]
    /\ UNCHANGED <<is_running, workers, task_queue, running_tasks, tasks, exec,
                   submitting, cancel, put_log, get_log, reaper, stopper,
                   store_ok, reply, now, wfvars, agentvars, libvars>>

\* _cleanup_completed_tasks: the loop over the loaded Tasks ends, `while
\* self.is_running` decides about another cycle
reaper_sleep ==
    /\ reaper = "sweep"
    /\ sweep.tasks = <<>>
    /\ reaper' = IF is_running THEN "sleep" ELSE "exited"
    /\ sweep' = NoSweep
    /\ UNCHANGED <<is_running, workers, task_queue, running_tasks, tasks, exec,
                   redis, submitting, cancel, put_log, get_log, stopper,
                   store_ok, reply, now, reaped, wfvars, agentvars, libvars>>

\* Time passes: the clock reads one more
tick ==
    /\ now < MaxClock
    /\ now' = now + 1
    /\ UNCHANGED <<is_running, workers, task_queue, running_tasks, tasks, exec,
                   redis, submitting, cancel, put_log, get_log, reaper,
                   stopper, store_ok, reply, sweep, reaped,
                   wfvars, agentvars, libvars>>

\* The steps every specification of the task manager takes
TaskManagerSteps ==
    \/ \E n \in Workers : start(n)
    \/ \E e \in 1..Len(tasks) : submit_put(e)
    \/ \E w \in Workers : worker_get(w)
    \/ \E w \in Workers : worker_resume(w)
    \/ \E e \in 1..Len(tasks) : execute_begin(e)
    \/ \E e \in 1..Len(tasks) : execute_finally(e)

\* What wait_for(process_request) can hand back to _execute_task
Outcomes == {"returned", "timeout", "raised"}

\* The admission queue: submissions of every priority with generated
\* identifiers; every run returns (the outcome of a run never reaches the queue).
NextQ ==
    \/ TaskManagerSteps
    \/ \E p \in Priorities : submit_task(p, 0)
    \/ \E e \in 1..Len(tasks) : execute_run(e, "returned")

SpecQ == Init /\ [][NextQ]_vars

\* The worker pool: submissions of the default priority, with generated or
\* caller-supplied identifiers, and runs that return, time out or raise.
NextRun ==
    \/ TaskManagerSteps
    \/ \E arg \in 0..Len(tasks) : submit_task("normal", arg)
    \/ \E e \in 1..Len(tasks), o \in Outcomes : execute_run(e, o)

SpecRun == Init /\ [][NextRun]_vars

\* The worker pool with cancel_task calls
Next ==
    \/ NextRun
    \/ \E id \in TaskIds, wrote \in BOOLEAN : cancel_task(id, wrote)
    \/ cancel_load
    \/ cancel_persist

Spec == Init /\ [][Next]_vars

\* The life cycle: start and stop calls around submissions with generated
\* identifiers and runs that return
NextStop ==
    \/ \E n \in 0..MaxWorkers : start(n)
    \/ \E wrote \in BOOLEAN : stop_begin(wrote)
    \/ stop_return
    \/ submit_task("normal", 0)
    \/ \E e \in 1..Len(tasks) : submit_put(e)
    \/ \E w \in Workers : worker_get(w)
    \/ \E w \in Workers : worker_resume(w)
    \/ \E e \in 1..Len(tasks) : execute_begin(e)
    \/ \E e \in 1..Len(tasks) : execute_run(e, "returned")
    \/ \E e \in 1..Len(tasks) : execute_finally(e)

SpecStop == Init /\ [][NextStop]_vars

\* The worker pool with one cancel_task call, for submissions with generated
\* identifiers and runs that return
NextCancel ==
    \/ TaskManagerSteps
    \/ submit_task("normal", 0)
    \/ \E e \in 1..Len(tasks) : execute_run(e, "returned")
    \/ /\ cancel.pc = "idle"
       /\ \E id \in TaskIds, wrote \in BOOLEAN : cancel_task(id, wrote)
    \/ cancel_load
    \/ cancel_persist

SpecCancel == Init /\ [][NextCancel]_vars

\* The reaper at work while time passes, the store fails and recovers, and
\* one worker runs tasks submitted with generated or caller-supplied
\* identifiers
NextReaper ==
    \/ start(1)
    \/ tick
    \/ store_down
    \/ store_up
    \/ \E failed \in BOOLEAN, read \in KeyOrders(DOMAIN redis) :
          reaper_wake(failed, read)
    \/ reaper_delete
    \/ reaper_sleep
    \/ \E arg \in 0..Len(tasks) : submit_task("normal", arg)
    \/ \E e \in 1..Len(tasks) : submit_put(e)
    \/ \E w \in Workers : worker_get(w)
    \/ \E w \in Workers : worker_resume(w)
    \/ \E e \in 1..Len(tasks) : execute_begin(e)
    \/ \E e \in 1..Len(tasks) : execute_run(e, "returned")
    \/ \E e \in 1..Len(tasks) : execute_finally(e)

SpecReaper == Init /\ [][NextReaper]_vars

\* The event loop runs every routine that is ready: a worker waiting for a
\* non-empty queue or for a run that has ended, a run at any of its steps
\* (process_request returns), a submit or cancel_task call between its awaits
SpecLive ==
    /\ Init
    /\ [][NextCancel]_vars
    /\ WF_vars(\E e \in 1..Len(tasks) : submit_put(e))
    /\ WF_vars(\E w \in Workers : worker_get(w))
    /\ WF_vars(\E w \in Workers : worker_resume(w))
    /\ WF_vars(\E e \in 1..Len(tasks) : execute_begin(e))
    /\ WF_vars(\E e \in 1..Len(tasks) : execute_run(e, "returned"))
    /\ WF_vars(\E e \in 1..Len(tasks) : execute_finally(e))
    /\ WF_vars(cancel_load)
    /\ WF_vars(cancel_persist)

\* Submissions, runs and reads while the store fails and recovers
NextStore ==
    \/ \E n \in Workers : start(n)
    \/ store_down
    \/ store_up
    \/ \E id \in TaskIds : get_task_status(id)
    \/ \E failed \in BOOLEAN, read \in KeyOrders(DOMAIN redis) :
          get_metrics(failed, read)
    \/ submit_task("normal", 0)
    \/ \E e \in 1..Len(tasks) : submit_put(e)
    \/ \E w \in Workers : worker_get(w)
    \/ \E w \in Workers : worker_resume(w)
    \/ \E e \in 1..Len(tasks) : execute_begin(e)
    \/ \E e \in 1..Len(tasks), o \in {"returned", "raised"} : execute_run(e, o)
    \/ \E e \in 1..Len(tasks) : execute_finally(e)

SpecStore == Init /\ [][NextStore]_vars

\* A Task created at `created_at` that has since reached `status`
StoredTask(task_id, created_at, status) ==
    [Task(task_id, "request", "normal", None) EXCEPT
        !.created_at = created_at, !.status = status,
        !.started_at = IF status = "pending" THEN None ELSE created_at,
        !.completed_at = IF status \in TerminalStatuses
                         THEN created_at ELSE None]

\* The contents of the store a listing is taken from
Stores ==
    UNION {{[k \in 1..n |-> to_dict(StoredTask(k, f[k][1], f[k][2]))] :
              f \in [1..n -> (1..MaxClock)
                             \X {"pending", "executing", "completed"}]} :
           n \in 0..MaxTasks}

\* The task manager with some records in its store
InitList ==
    /\ now = MaxClock
    /\ is_running = FALSE
    /\ workers = [w \in Workers |-> [pc |-> "none", task |-> 0]]
    /\ task_queue = <<>>
    /\ running_tasks = [i \in TaskIds |-> 0]
    /\ tasks = <<>>
    /\ exec = <<>>
    /\ redis \in Stores
    /\ submitting = {}
    /\ cancel = NoCall
    /\ put_log = <<>>
    /\ get_log = <<>>
    /\ reaper = "none"
    /\ stopper = [pc |-> "idle"]
    /\ store_ok = TRUE
    /\ reply = NoReply
    /\ sweep = NoSweep
    /\ reaped = <<>>
    /\ wf_pc = "created"
    /\ wf_task = Task(1, "request", "normal", None)
    /\ wf_persisted = to_dict(wf_task)
    /\ state = AutoOpsState
    /\ wf_obs = [gen_calls |-> <<>>, issues |-> -1, executor_runs |-> 0,
                 failures |-> 0, operations_run |-> 0]
    /\ InitExecutorIdle
    /\ InitRollbackIdle
    /\ InitPlanIdle
    /\ InitLibIdle

\* One list_tasks call on the store
NextList ==
    /\ reply = NoReply
    /\ \E status \in {"None", "pending", "completed"}, limit \in 0..MaxLimit,
          read \in KeyOrders(DOMAIN redis) :
          list_tasks(status, limit, FALSE, read)

SpecList == InitList /\ [][NextList]_vars

----------------------------------------------------------------------------
\* One _execute_task call, its workflow run traced node by node

Nodes == {"planner", "validator", "executor", "error_handler"}

\* _execute_task up to wait_for(process_request): status executing, persisted;
\* process_request builds the initial state and invokes the graph at its entry
\* point
wf_execute_begin ==
    /\ wf_pc = "created"
    /\ wf_task' = ExecutingBranch(wf_task)
    /\ wf_persisted' = to_dict(wf_task')
    /\ wf_pc' = "planner"
    /\ UNCHANGED <<state, wf_obs, tmvars, libvars, agentvars>>

\* _planner_node: the plan generator attaches a plan, reports failure,
\* completes without a plan, or raises (the graph run then raises)
planner_node(outcome, plan) ==
    /\ wf_pc = "planner"
    /\ wf_obs' = [wf_obs EXCEPT !.gen_calls = Append(@, outcome)]
    /\ outcome # "planned" => plan = NoPlan
    /\ outcome = "planned" => plan \in Plans
    /\ IF outcome = "raised"
       THEN /\ wf_pc' = "except"
            /\ UNCHANGED state
       ELSE /\ state' =
                CASE outcome = "planned" ->
                        [state EXCEPT !.planner_status = "completed",
                                      !.execution_plan = plan]
                  [] outcome = "failed" ->
                        add_error([state EXCEPT !.planner_status = "failed"],
                                  "planning failed")
                  [] outcome = "empty" ->
                        [state EXCEPT !.planner_status = "completed"]
            /\ wf_pc' = PlannerEdge(_should_execute(state'))
    /\ UNCHANGED <<wf_task, wf_persisted, tmvars, libvars, agentvars>>

\* _validator_node
validator_node ==
    /\ wf_pc = "validator"
    /\ LET issues == validate_plan(state.execution_plan)
       IN /\ state' =
                IF ~state.execution_plan.present
                THEN add_error(state, "No execution plan to validate")
                ELSE IF issues # <<>>
                     THEN add_error(state, "Plan validation issues")
                     ELSE [state EXCEPT !.current_step = "validated"]
          /\ wf_obs' = [wf_obs EXCEPT !.issues = Len(issues)]
    /\ wf_pc' = ValidatorEdge(_should_proceed_with_execution(state'))
    /\ UNCHANGED <<wf_task, wf_persisted, tmvars, libvars, agentvars>>

\* Mutant: one error for the whole call, however many operations failed
execute_one_error(st, failed) ==
    IF ~st.execution_plan.present
    THEN add_error([st EXCEPT !.executor_status = "failed"],
                   "No execution plan available")
    ELSE LET ops == st.execution_plan.operations
             results == [i \in 1..Len(ops) |->
                            ExecutionResult(ops[i],
                                IF i \in failed THEN "failed" ELSE "completed")]
         IN [st EXCEPT
                !.current_step = "executing",
                !.execution_results = @ \o results,
                !.executor_status =
                    IF failed # {} THEN "failed" ELSE "completed",
                !.errors = IF failed # {}
                           THEN Append(@, "Operation failed") ELSE @]

\* ExecutorAgent.execute on the plan's operations; failed: the operations whose
\* backend call failed on every attempt
execute(st, failed) ==
    IF ~st.execution_plan.present
    THEN add_error([st EXCEPT !.executor_status = "failed"],
                   "No execution plan available")
    ELSE LET ops == st.execution_plan.operations
             results == [i \in 1..Len(ops) |->
                            ExecutionResult(ops[i],
                                IF i \in failed THEN "failed" ELSE "completed")]
             failed_operations ==
                 SelectSeq(results, LAMBDA r : r.status = "failed")
         IN [st EXCEPT
                !.current_step = "executing",
                !.execution_results = @ \o results,
                !.executor_status =
                    IF failed_operations # <<>> THEN "failed" ELSE "completed",
                !.errors = @ \o [i \in 1..Len(failed_operations) |->
                                    "Operation failed"]]

\* _executor_node
executor_node(failed) ==
    /\ wf_pc = "executor"
    /\ wf_obs.executor_runs < MaxExecutorRuns
    /\ failed \subseteq 1..Len(state.execution_plan.operations)
    /\ state' = execute(state, failed)
    /\ wf_obs' = [wf_obs EXCEPT
                    !.executor_runs = @ + 1,
                    !.failures = @ + Cardinality(failed),
                    !.operations_run =
                        @ + Len(state.execution_plan.operations)]
    /\ wf_pc' = ExecutorEdge(_check_execution_result(state'))
    /\ UNCHANGED <<wf_task, wf_persisted, tmvars, libvars, agentvars>>

\* Mutant: the handler counts down
_error_handler_countdown(st) ==
    [st EXCEPT !.retry_count = @ - 1, !.current_step = "retrying"]

\* _error_handler_node lines 172-186
_error_handler(st) ==
    IF st.retry_count < retry_max_attempts
    THEN [st EXCEPT !.retry_count = @ + 1,
                    !.current_step = "retrying",
                    !.planner_status = "pending",
                    !.executor_status = "pending"]
    ELSE [st EXCEPT !.current_step = "failed"]

\* _error_handler_node, and its edge to END
error_handler_node ==
    /\ wf_pc = "error_handler"
    /\ state' = _error_handler(state)
    /\ wf_pc' = "END"
    /\ UNCHANGED <<wf_task, wf_persisted, wf_obs, tmvars, libvars, agentvars>>

\* process_request returns the graph's result; _execute_task lines 270-272
process_request_return ==
    /\ wf_pc = "END"
    /\ wf_task' = CompletedBranch(wf_task)
    /\ wf_pc' = "finalizing"
    /\ UNCHANGED <<wf_persisted, state, wf_obs, tmvars, libvars, agentvars>>

\* process_request lines 117-126: the graph run raised; the initial state is
\* returned with the error; _execute_task lines 270-272
process_request_except ==
    /\ wf_pc = "except"
    /\ state' = [add_error(AutoOpsState, "Orchestration error") EXCEPT
                    !.planner_status = "failed", !.executor_status = "failed"]
    /\ wf_task' = CompletedBranch(wf_task)
    /\ wf_pc' = "finalizing"
    /\ UNCHANGED <<wf_persisted, wf_obs, tmvars, libvars, agentvars>>

\* process_request raises before its try block (lines 99-104);
\* _execute_task lines 291-294
process_request_raise ==
    /\ wf_pc = "planner"
    /\ wf_task' = ExceptionBranch(wf_task)
    /\ wf_pc' = "finalizing"
    /\ UNCHANGED <<wf_persisted, state, wf_obs, tmvars, libvars, agentvars>>

\* wait_for gives up while a node is running; _execute_task lines 284-287
wf_timeout ==
    /\ wf_pc \in Nodes
    /\ wf_task' = TimeoutBranch(wf_task)
    /\ wf_pc' = "finalizing"
    /\ UNCHANGED <<wf_persisted, state, wf_obs, tmvars, libvars, agentvars>>

\* _execute_task: the persist of the finally block
wf_execute_finally ==
    /\ wf_pc = "finalizing"
    /\ wf_persisted' = to_dict(wf_task)
    /\ wf_pc' = "done"
    /\ UNCHANGED <<wf_task, state, wf_obs, tmvars, libvars, agentvars>>

NextWF ==
    \/ wf_execute_begin
    \/ \E o \in {"failed", "empty", "raised"} : planner_node(o, NoPlan)
    \/ \E plan \in Plans : planner_node("planned", plan)
    \/ validator_node
    \/ \E failed \in SUBSET (1..MaxOps) : executor_node(failed)
    \/ error_handler_node
    \/ process_request_return
    \/ process_request_except
    \/ process_request_raise
    \/ wf_timeout
    \/ wf_execute_finally

SpecWF == Init /\ [][NextWF]_vars

\* The same run with a backend in which only the first operation of a plan
\* can fail
NextFlow ==
    \/ wf_execute_begin
    \/ \E o \in {"failed", "empty", "raised"} : planner_node(o, NoPlan)
    \/ \E plan \in Plans : planner_node("planned", plan)
    \/ validator_node
    \/ \E failed \in {{}, {1}} : executor_node(failed)
    \/ error_handler_node
    \/ process_request_return
    \/ process_request_except
    \/ process_request_raise
    \/ wf_timeout
    \/ wf_execute_finally

SpecFlow == Init /\ [][NextFlow]_vars

\* The states execute is called on: with or without a plan (a plan's
\* operations list may be empty), on the first run or on a retry that finds
\* the results and errors of the run before
ExecuteStates ==
    {[AutoOpsState EXCEPT !.planner_status = "completed",
                          !.execution_plan = plan,
                          !.execution_results = results,
                          !.errors = errors] :
        plan \in Plans \cup {NoPlan, ExecutionPlan(<<>>)},
        results \in {<<>>} \cup
                    {<<ExecutionResult(op, "failed")>> : op \in Operations},
        errors \in {<<>>, <<"Operation failed">>}}

\* The graph about to enter the executor node with one of these states
InitExecute ==
    /\ now = 1
    /\ is_running = FALSE
    /\ workers = [w \in Workers |-> [pc |-> "none", task |-> 0]]
    /\ task_queue = <<>>
    /\ running_tasks = [i \in TaskIds |-> 0]
    /\ tasks = <<>>
    /\ exec = <<>>
    /\ redis = <<>>
    /\ submitting = {}
    /\ cancel = NoCall
    /\ put_log = <<>>
    /\ get_log = <<>>
    /\ reaper = "none"
    /\ stopper = [pc |-> "idle"]
    /\ store_ok = TRUE
    /\ reply = NoReply
    /\ sweep = NoSweep
    /\ reaped = <<>>
    /\ wf_pc = "executor"
    /\ wf_task = Task(1, "request", "normal", None)
    /\ wf_persisted = to_dict(wf_task)
    /\ state \in ExecuteStates
    /\ wf_obs = [gen_calls |-> <<>>, issues |-> -1, executor_runs |-> 0,
                 failures |-> 0, operations_run |-> 0]
    /\ InitExecutorIdle
    /\ InitRollbackIdle
    /\ InitPlanIdle
    /\ InitLibIdle

\* One call of ExecutorAgent.execute
NextExecute ==
    /\ wf_obs.executor_runs = 0
    /\ \E failed \in SUBSET (1..MaxOps) : executor_node(failed)

SpecExecute == InitExecute /\ [][NextExecute]_vars

----------------------------------------------------------------------------
\* One ExecutorAgent._execute_operations call

\* The actions _execute_single_operation has a branch for (lines 140-183);
\* any other action reaches `raise ValueError` (line 185)
SupportedActions ==
    {"CREATE", "UPDATE", "DELETE", "SCALE", "GET", "LIST", "PATCH"}

\* The operations the calls are drawn from
ExecOperations ==
    {Operation("CREATE", "deployment", "web", "default"),
     Operation("DELETE", "service", "api", "default"),
     Operation("RESTART", "deployment", "web", "default")}

OperationLists ==
    UNION {[1..n -> ExecOperations] : n \in 1..MaxExecOps}

NoResult == ExecutionResult(Operation("none", "none", "none", "none"), "none")

\* A slot of the list asyncio.gather(..., return_exceptions=True) returns:
\* not filled yet, the returned ExecutionResult, or the exception raised
Pending == [kind |-> "pending", result |-> NoResult]

Returned(result) == [kind |-> "result", result |-> result]

Raised == [kind |-> "exception", result |-> NoResult]

\* The awaitable was cancelled before it was done
Cancelled == [kind |-> "cancelled", result |-> NoResult]

\* Mutant: one attempt more than stop_after_attempt
stop_late(attempt_number) == attempt_number >= stop_after_attempt + 1

\* tenacity stop_after_attempt(3): after a failed attempt, give up (raise
\* RetryError) once this many attempts have been made
stop(attempt_number) == attempt_number >= stop_after_attempt

\* Mutant: the semaphore never blocks
never_locked(value) == FALSE

\* asyncio.Semaphore: acquire waits while the counter is zero
locked(value) == value <= 0

\* Mutant: results collected in completion order
gather_as_completed(g, i, r) ==
    LET k == CHOOSE j \in 1..Len(g) :
                 /\ g[j].kind = "pending"
                 /\ \A h \in 1..(j - 1) : g[h].kind # "pending"
    IN [g EXCEPT ![k] = r]

\* asyncio.gather: the outcome of the i-th awaitable goes to position i
gather(g, i, r) == [g EXCEPT ![i] = r]

\* _execute_operations lines 105-119: a result for each slot of gather's list
HandleExceptions(ops, g) ==
    [i \in 1..Len(g) |->
        IF g[i].kind = "exception"
        THEN ExecutionResult(ops[i], "failed")
        ELSE g[i].result]

\* The call has created its coroutines and handed them to gather
InitExecutorCall ==
    /\ ex_operations \in OperationLists
    /\ op_run = [i \in 1..Len(ex_operations) |->
                    [pc |-> "waiting", attempts |-> <<>>]]
    /\ semaphore = max_concurrent_operations
    /\ gathered = [i \in 1..Len(ex_operations) |-> Pending]
    /\ execution_results = <<>>
    /\ ex_obs = [first_done |-> 0, returned |-> FALSE, cancelled |-> FALSE,
                 in_flight |-> {}]

\* execute_with_semaphore: `async with semaphore`, then the first attempt of
\* _execute_single_operation up to its backend call.  The coroutines reach
\* the semaphore, and are woken by it, in the order gather received them.
execute_with_semaphore(i) ==
    /\ op_run[i].pc = "waiting"
    /\ \A j \in 1..(i - 1) : op_run[j].pc # "waiting"
    /\ ~locked(semaphore)
    /\ semaphore' = semaphore - 1
    /\ op_run' = [op_run EXCEPT ![i].pc = "attempt"]
    /\ UNCHANGED <<ex_operations, gathered, execution_results, ex_obs,
                   tmvars, libvars, wfvars, rbvars, vpvars>>

\* An attempt of _execute_single_operation ends: the backend call returned
\* (ok), or it raised, or the action has no branch and ValueError was raised;
\* the except block re-raises to the retry decorator (line 211), which waits
\* for the next attempt or gives up with RetryError
attempt_end(i, ok) ==
    /\ op_run[i].pc = "attempt"
    /\ ok => ex_operations[i].action \in SupportedActions
    /\ LET attempts == Append(op_run[i].attempts,
                              IF ok THEN "completed" ELSE "failed")
           over == ok \/ stop(Len(attempts))
       IN /\ op_run' = [op_run EXCEPT
                           ![i].attempts = attempts,
                           ![i].pc = IF over THEN "done" ELSE "sleep"]
          /\ semaphore' = IF over THEN semaphore + 1 ELSE semaphore
          /\ gathered' =
                IF ok
                THEN gather(gathered, i,
                            Returned(ExecutionResult(ex_operations[i], "completed")))
                ELSE IF over THEN gather(gathered, i, Raised) ELSE gathered
          /\ ex_obs' = IF over /\ ex_obs.first_done = 0
                       THEN [ex_obs EXCEPT !.first_done = i] ELSE ex_obs
    /\ UNCHANGED <<ex_operations, execution_results,
                   tmvars, libvars, wfvars, rbvars, vpvars>>

\* The wait between two attempts (wait_exponential) is over
retry_wake(i) ==
    /\ op_run[i].pc = "sleep"
    /\ op_run' = [op_run EXCEPT ![i].pc = "attempt"]
    /\ UNCHANGED <<ex_operations, semaphore, gathered, execution_results,
                   ex_obs, tmvars, libvars, wfvars, rbvars, vpvars>>

\* gather returns once every awaitable is done; lines 105-119
_execute_operations_return ==
    /\ ~ex_obs.returned
    /\ ~ex_obs.cancelled
    /\ ex_operations # <<>>
    /\ \A i \in 1..Len(gathered) : gathered[i].kind # "pending"
    /\ execution_results' = HandleExceptions(ex_operations, gathered)
    /\ ex_obs' = [ex_obs EXCEPT !.returned = TRUE]
    /\ UNCHANGED <<ex_operations, op_run, semaphore, gathered,
                   tmvars, libvars, wfvars, rbvars, vpvars>>

\* The operations holding the semaphore: in a backend call, or between two
\* attempts of _execute_single_operation
InFlight == {i \in 1..Len(op_run) : op_run[i].pc \in {"attempt", "sleep"}}

\* cancel_task line 188 on the routine that is inside `await asyncio.gather`
\* (line 103): gather cancels every awaitable that is not done, CancelledError
\* is raised at the point each of them is suspended (the semaphore's acquire,
\* the backend call, the wait before a retry; `except Exception` does not
\* catch it and `async with` releases the semaphore), and then out of
\* line 103, so lines 105-119 are not run
cancel_execution ==
    /\ ~ex_obs.returned
    /\ ~ex_obs.cancelled
    /\ ex_operations # <<>>
    /\ op_run' = [i \in 1..Len(op_run) |->
                    IF op_run[i].pc = "done" THEN op_run[i]
                    ELSE [op_run[i] EXCEPT !.pc = "cancelled"]]
    /\ semaphore' = semaphore + Cardinality(InFlight)
    /\ gathered' = [i \in 1..Len(gathered) |->
                      IF gathered[i].kind = "pending" THEN Cancelled
                      ELSE gathered[i]]
    /\ ex_obs' = [ex_obs EXCEPT !.cancelled = TRUE, !.in_flight = InFlight]
    /\ UNCHANGED <<ex_operations, execution_results,
                   tmvars, libvars, wfvars, rbvars, vpvars>>

NextExec ==
    \/ \E i \in 1..Len(ex_operations) : execute_with_semaphore(i)
    \/ \E i \in 1..Len(ex_operations), ok \in BOOLEAN : attempt_end(i, ok)
    \/ \E i \in 1..Len(ex_operations) : retry_wake(i)
    \/ _execute_operations_return

InitExec ==
    /\ InitTaskManager
    /\ InitExecutorCall
    /\ InitRollbackIdle
    /\ InitPlanIdle
    /\ InitLibIdle

SpecExec == InitExec /\ [][NextExec]_vars

\* The same call, with a cancellation that may arrive during it
NextExecCancel ==
    \/ NextExec
    \/ cancel_execution

SpecExecCancel == InitExec /\ [][NextExecCancel]_vars

----------------------------------------------------------------------------
\* One ExecutorAgent.rollback_operations call

\* The results the calls are drawn from
RollbackResults ==
    {ExecutionResult(Operation("CREATE", "deployment", "web", "prod"), "completed"),
     ExecutionResult(Operation("CREATE", "service", "api", "default"), "completed"),
     ExecutionResult(Operation("DELETE", "configmap", "cfg", "default"), "completed"),
     ExecutionResult(Operation("CREATE", "secret", "key", "default"), "failed")}

ResultLists ==
    UNION {[1..n -> RollbackResults] : n \in 1..MaxResults}

\* Mutant: the walk follows the list's own order
not_reversed(seq) == seq

\* reversed(results)
reversed(seq) == [i \in 1..Len(seq) |-> seq[Len(seq) + 1 - i]]

\* rollback_operations line 221
Reversible(result) ==
    result.status = "completed" /\ result.operation.action = "CREATE"

\* rollback_operations lines 223-228
rollback_op(result) ==
    Operation("DELETE", result.operation.resource_type,
              result.operation.resource_name, result.operation.namespace)

\* Mutant: a failed compensating delete ends the walk
abort_walk(pos, n) == n

\* rollback_operations lines 233-240: the except block records the failure
\* and the for loop goes on to the next entry
after_rollback_failure(pos, n) == pos + 1

InitRollbackCall ==
    /\ rb_results \in ResultLists
    /\ rb = [pc |-> "walk", pos |-> 0, attempt_number |-> 0]
    /\ rb_issued = <<>>
    /\ rollback_results = <<>>

\* The for loop takes the next entry of reversed(results); for a completed
\* CREATE it builds the DELETE and starts its first attempt
rollback_next ==
    /\ rb.pc = "walk"
    /\ rb.pos < Len(rb_results)
    /\ LET result == reversed(rb_results)[rb.pos + 1]
       IN IF Reversible(result)
          THEN /\ rb' = [rb EXCEPT !.pc = "attempt", !.attempt_number = 1]
               /\ rb_issued' = Append(rb_issued,
                                  [operation |-> rollback_op(result), attempts |-> 1])
          ELSE /\ rb' = [rb EXCEPT !.pos = @ + 1]
               /\ UNCHANGED rb_issued
    /\ UNCHANGED <<rb_results, rollback_results, tmvars, libvars, wfvars, exvars, vpvars>>

\* An attempt of _execute_single_operation(rollback_op) ends: the delete
\* returned (ok) or raised; after a failed attempt the retry decorator makes
\* the next attempt or gives up with RetryError, caught at line 233
rollback_attempt_end(ok) ==
    /\ rb.pc = "attempt"
    /\ LET rollback_operation == rb_issued[Len(rb_issued)].operation
       IN IF ok
          THEN /\ rollback_results' =
                    Append(rollback_results,
                           ExecutionResult(rollback_operation, "completed"))
               /\ rb' = [pc |-> "walk", pos |-> rb.pos + 1, attempt_number |-> 0]
               /\ UNCHANGED rb_issued
          ELSE IF stop(rb.attempt_number)
          THEN /\ rollback_results' =
                    Append(rollback_results,
                           ExecutionResult(rollback_operation, "failed"))
               /\ rb' = [pc |-> "walk",
                         pos |-> after_rollback_failure(rb.pos, Len(rb_results)),
                         attempt_number |-> 0]
               /\ UNCHANGED rb_issued
          ELSE /\ rb' = [rb EXCEPT !.attempt_number = @ + 1]
               /\ rb_issued' = [rb_issued EXCEPT ![Len(rb_issued)].attempts = @ + 1]
               /\ UNCHANGED rollback_results
    /\ UNCHANGED <<rb_results, tmvars, libvars, wfvars, exvars, vpvars>>

\* The loop is over: return rollback_results
rollback_return ==
    /\ rb.pc = "walk"
    /\ rb_results # <<>>
    /\ rb.pos = Len(rb_results)
    /\ rb' = [rb EXCEPT !.pc = "returned"]
    /\ UNCHANGED <<rb_results, rb_issued, rollback_results,
                   tmvars, libvars, wfvars, exvars, vpvars>>

NextRollback ==
    \/ rollback_next
    \/ \E ok \in BOOLEAN : rollback_attempt_end(ok)
    \/ rollback_return

InitRollback ==
    /\ InitTaskManager
    /\ InitExecutorIdle
    /\ InitRollbackCall
    /\ InitPlanIdle
    /\ InitLibIdle

SpecRollback == InitRollback /\ [][NextRollback]_vars

----------------------------------------------------------------------------
\* PlannerAgent.validate_plan applied to a plan

\* The operations the validated plans are drawn from
PlanOperations ==
    {Operation("CREATE", "namespace", "prod", "default"),
     Operation("CREATE", "deployment", "web", "prod"),
     Operation("CREATE", "deployment", "web", "default"),
     Operation("CREATE", "deployment", "", "default"),
     Operation("CREATE", "pod", "pod/x", "a"),
     Operation("CREATE", "pod", "x", "a/pod"),
     Operation("SCALE", "deployment", "web", "default")}

PlansToValidate ==
    {ExecutionPlan(ops) :
        ops \in UNION {[1..n -> PlanOperations] : n \in 1..MaxPlanOps}}

InitPlanCall ==
    /\ vp_plan \in PlansToValidate
    /\ vp = [pc |-> "called", issues |-> <<>>]

\* issues = await self.planner.validate_plan(plan)
validate_plan_call ==
    /\ vp_plan.present
    /\ vp.pc = "called"
    /\ vp' = [pc |-> "validated", issues |-> validate_plan(vp_plan)]
    /\ UNCHANGED <<vp_plan, tmvars, libvars, wfvars, exvars, rbvars>>

NextPlan == validate_plan_call

InitPlan ==
    /\ InitTaskManager
    /\ InitExecutorIdle
    /\ InitRollbackIdle
    /\ InitPlanCall
    /\ InitLibIdle

SpecPlan == InitPlan /\ [][NextPlan]_vars

----------------------------------------------------------------------------
\* Helpers of the properties

Range(q) == {q[i] : i \in 1..Len(q)}

\* Position of entry e in a log it occurs in
Pos(q, e) == CHOOSE i \in 1..Len(q) : q[i] = e

\* The worker routines start() has created
Started == {w \in Workers : workers[w].pc # "none"}

\* The execution task of entry e is inside its workflow run
InRun(e) == exec[e].pc = "running"

\* Nothing is left to do but new calls of the public interface
Quiescent ==
    /\ submitting = {}
    /\ cancel.pc \in {"idle", "returned"}
    /\ \A e \in 1..Len(tasks) : exec[e].pc \in {"none", "done", "cancelled"}
    /\ \A w \in Workers : workers[w].pc # "await"
    /\ task_queue = <<>>

----------------------------------------------------------------------------
\* C1: with a single worker, the task a dequeue hands to the worker has the
\* highest priority among the tasks waiting in the admission queue
\* (critical > high > normal > low).
C1_PriorityDequeue ==
    [][(Cardinality(Started) = 1 /\ Len(get_log') = Len(get_log) + 1)
        => \A i \in 1..Len(task_queue) :
              PriorityRank(tasks[get_log'[Len(get_log')]].priority)
                >= PriorityRank(tasks[task_queue[i]].priority)]_vars

\* C2: of two tasks of the same priority, the one whose submit call completed
\* first (whose put came first) is dequeued first.
C2_FifoWithinBand ==
    \A i, j \in 1..Len(put_log) :
        (/\ i < j
         /\ tasks[put_log[i]].priority = tasks[put_log[j]].priority
         /\ put_log[j] \in Range(get_log))
        => /\ put_log[i] \in Range(get_log)
           /\ Pos(get_log, put_log[i]) < Pos(get_log, put_log[j])

\* C2 witness: two tasks of one priority whose puts completed in the order
\* opposite to their construction, both dequeued.
C2_Witness ==
    /\ Len(put_log) >= 2
    /\ put_log[1] = 2 /\ put_log[2] = 1
    /\ tasks[1].priority = tasks[2].priority
    /\ {1, 2} \subseteq Range(get_log)

\* C3: no two workers drive a workflow run for the same task identifier at
\* the same time.
C3_SingleWriter ==
    \A e1, e2 \in 1..Len(tasks) :
        (e1 # e2 /\ InRun(e1) /\ InRun(e2))
        => tasks[e1].task_id # tasks[e2].task_id

\* C6: a cancel_task call made on a submitted task before its run has finished
\* leaves the persisted status cancelled once the system is quiescent.
C6_CancelOutcome ==
    (/\ Quiescent
     /\ cancel.pc = "returned"
     /\ cancel.early
     /\ UniqueId(cancel.task_id))
    => redis[cancel.task_id].status = "cancelled"

\* C7: cancel_task returns False when the task does not exist or its status is
\* already terminal, and True only for an existing task that is not terminal.
C7_CancelReturn ==
    cancel.pc = "returned"
    => (cancel.ret = "false" <=> cancel.found \in TerminalStatuses \cup {"none"})

\* C8: once cancel_task has returned True for a task, no workflow run of that
\* task is started.
C8_NoRunAfterCancel ==
    [][\A e \in 1..Len(tasks) :
          (exec[e].pc = "created" /\ exec'[e].pc = "running")
          => ~(/\ cancel.pc = "returned"
               /\ cancel.ret = "true"
               /\ cancel.task_id = tasks[e].task_id
               /\ UniqueId(tasks[e].task_id))]_vars

\* C9: a run that times out leaves the task failed with the timeout error, in
\* memory and in the record the finally block persists, and the task is never
\* queued or run again.
C9_TimeoutTerminal ==
    [][\A e \in 1..Len(tasks) :
          tasks[e].error = "timeout"
          => /\ tasks[e].status = "failed"
             /\ tasks'[e] = tasks[e]
             /\ e \notin Range(task_queue')
             /\ exec'[e].pc \in {"finalizing", "done"}
             /\ (exec[e].pc = "finalizing" /\ exec'[e].pc = "done")
                => /\ redis'[tasks[e].task_id].status = "failed"
                   /\ redis'[tasks[e].task_id].error = "timeout"]_vars

\* C9 witness: a task whose run timed out, persisted as failed, its worker
\* back at the queue.
C9_Witness ==
    \E e \in 1..Len(tasks) :
        /\ tasks[e].error = "timeout"
        /\ exec[e].pc = "done"
        /\ redis[tasks[e].task_id].status = "failed"
        /\ redis[tasks[e].task_id].error = "timeout"
        /\ workers[exec[e].worker].pc = "get"

\* C10: a run that raises leaves the task failed with the error recorded, in
\* memory and in the persisted record, and the worker that drove it returns to
\* the queue.
C10_WorkerSurvives ==
    [][\A w \in Workers :
          (workers[w].pc = "await" /\ tasks[workers[w].task].error = "exception")
          => LET e == workers[w].task
             IN /\ tasks[e].status = "failed"
                /\ (exec[e].pc = "finalizing" /\ exec'[e].pc # "finalizing")
                   => /\ exec'[e].pc = "done"
                      /\ redis'[tasks[e].task_id].status = "failed"
                      /\ redis'[tasks[e].task_id].error = "exception"
                /\ workers'[w] # workers[w] => workers'[w].pc = "get"]_vars

\* C10 witness: a worker whose earlier run raised is driving a later task.
C10_Witness ==
    \E e1, e2 \in 1..Len(tasks) :
        /\ tasks[e1].error = "exception"
        /\ tasks[e1].status = "failed"
        /\ exec[e1].pc = "done"
        /\ exec[e2].worker = exec[e1].worker
        /\ exec[e2].pc = "running"
        /\ workers[exec[e1].worker] = [pc |-> "await", task |-> e2]

\* C4: when the plan generator fails on every call, the run ends with
\* retry_count = max_retries and the task failed.
C4_RetryBound ==
    (/\ wf_pc = "done"
     /\ wf_task.error = "none"
     /\ wf_obs.gen_calls # <<>>
     /\ \A i \in 1..Len(wf_obs.gen_calls) :
            wf_obs.gen_calls[i] \in {"failed", "raised"})
    => /\ state.retry_count = retry_max_attempts
       /\ wf_task.status = "failed"
       /\ wf_persisted.status = "failed"

\* C5: the task's status is completed only if the run produced a plan,
\* validation reported zero issues, and every operation of the plan succeeded.
C5_CompletedOnlyOnSuccess ==
    wf_task.status = "completed"
    => /\ state.execution_plan.present
       /\ wf_obs.issues = 0
       /\ state.executor_status = "completed"

\* C11: whenever the error handler runs with retry_count < max_retries,
\* retry_count is incremented by one and the Plan phase is entered again.
C11_RecoverReentersPlan ==
    [][(/\ wf_pc = "error_handler"
        /\ wf_pc' # "finalizing"
        /\ state.retry_count < retry_max_attempts)
       => /\ state'.retry_count = state.retry_count + 1
          /\ wf_pc' = "planner"]_vars

\* C12: a single workflow run enters the Execute phase at most
\* max_retries + 1 times.
C12_BoundedExecute ==
    wf_obs.executor_runs <= retry_max_attempts + 1

\* Attempts operation i of the _execute_operations call has begun
Attempted(i) ==
    Len(op_run[i].attempts) + (IF op_run[i].pc = "attempt" THEN 1 ELSE 0)

\* C13: the executor returns exactly one ExecutionResult per operation, and
\* the i-th result is the result for the i-th operation of the input list,
\* whether it succeeded or exhausted its retries.
C13_ResultOrdering ==
    ex_obs.returned
    => /\ Len(execution_results) = Len(ex_operations)
       /\ \A i \in 1..Len(ex_operations) :
             execution_results[i] =
                ExecutionResult(ex_operations[i],
                    op_run[i].attempts[Len(op_run[i].attempts)])

\* C13 witness: a call with three operations has returned; the second
\* operation, different from the first, completed before every other one, and
\* the first exhausted its retries.
C13_Witness ==
    /\ ex_obs.returned
    /\ Len(ex_operations) = 3
    /\ ex_obs.first_done = 2
    /\ ex_operations[1] # ex_operations[2]
    /\ execution_results[1].status = "failed"
    /\ execution_results[2].status = "completed"

\* C14: the number of operations holding a slot (in an attempt against the
\* backend, or between two attempts) never exceeds max_concurrent_operations;
\* operations beyond it wait.
C14_ConcurrencyCap ==
    Cardinality({i \in 1..Len(op_run) : op_run[i].pc \in {"attempt", "sleep"}})
        <= max_concurrent_operations

\* C14 witness: max_concurrent_operations operations hold a slot, one of them
\* in an attempt, and a further operation waits.
C14_Witness ==
    /\ Cardinality({i \in 1..Len(op_run) : op_run[i].pc \in {"attempt", "sleep"}})
          = max_concurrent_operations
    /\ \E i \in 1..Len(op_run) : op_run[i].pc = "attempt"
    /\ \E i \in 1..Len(op_run) : op_run[i].pc = "waiting"

\* C15: each operation is attempted at most 3 times, again only after a
\* failed attempt, and is recorded as failed only after its last permitted
\* attempt failed.
C15_OperationRetryBound ==
    \A i \in 1..Len(op_run) :
        /\ Attempted(i) <= stop_after_attempt
        /\ \A k \in 1..(Attempted(i) - 1) : op_run[i].attempts[k] = "failed"
        /\ (ex_obs.returned /\ execution_results[i].status = "failed")
           => /\ Len(op_run[i].attempts) = stop_after_attempt
              /\ op_run[i].attempts[stop_after_attempt] = "failed"

\* C15 witness: a returned call in which one operation succeeded on its third
\* attempt and another is recorded as failed after three failed attempts.
C15_Witness ==
    /\ ex_obs.returned
    /\ \E i, j \in 1..Len(op_run) :
          /\ op_run[i].attempts = <<"failed", "failed", "completed">>
          /\ execution_results[i].status = "completed"
          /\ op_run[j].attempts = <<"failed", "failed", "failed">>
          /\ execution_results[j].status = "failed"
          /\ ex_operations[j].action \in SupportedActions

\* C16: an operation whose action is not one of create/update/delete/scale/
\* get/list/patch is attempted exactly once and yields a failed result.
C16_UnsupportedOnce ==
    \A i \in 1..Len(op_run) :
        (ex_operations[i].action \notin SupportedActions /\ op_run[i].pc = "done")
        => /\ op_run[i].attempts = <<"failed">>
           /\ ex_obs.returned => execution_results[i].status = "failed"

\* The entries of the rollback input that call for a compensating delete
\* (completed creates), last entry first
ToCompensate ==
    LET n == Len(rb_results)
        backwards == [k \in 1..n |-> rb_results[n + 1 - k]]
    IN SelectSeq(backwards,
                 LAMBDA r : r.status = "completed" /\ r.operation.action = "CREATE")

\* C17: rollback issues a compensating delete for exactly the completed
\* creates, in the reverse of their order in the list, targeting the same
\* resource kind, name and namespace, and returns one ExecutionResult per
\* compensated entry.
C17_RollbackReversal ==
    rb.pc = "returned"
    => /\ Len(rb_issued) = Len(ToCompensate)
       /\ Len(rollback_results) = Len(ToCompensate)
       /\ \A k \in 1..Len(ToCompensate) :
             /\ rb_issued[k].operation.action = "DELETE"
             /\ rb_issued[k].operation.resource_type
                    = ToCompensate[k].operation.resource_type
             /\ rb_issued[k].operation.resource_name
                    = ToCompensate[k].operation.resource_name
             /\ rb_issued[k].operation.namespace
                    = ToCompensate[k].operation.namespace
             /\ rollback_results[k].operation = rb_issued[k].operation

\* C17 witness: rollback of [create X, create Y, delete Z], all completed, has
\* returned after deleting Y, then X.
C17_Witness ==
    /\ rb.pc = "returned"
    /\ Len(rb_results) = 3
    /\ \A k \in 1..3 : rb_results[k].status = "completed"
    /\ rb_results[1].operation.action = "CREATE"
    /\ rb_results[2].operation.action = "CREATE"
    /\ rb_results[1] # rb_results[2]
    /\ rb_results[3].operation.action = "DELETE"
    /\ Len(rb_issued) = 2
    /\ rb_issued[1].operation.resource_name = rb_results[2].operation.resource_name
    /\ rb_issued[2].operation.resource_name = rb_results[1].operation.resource_name

\* C18: when a compensating delete fails after its retries, rollback records
\* a failed ExecutionResult for it and still attempts the compensating delete
\* of every remaining reversible entry.
C18_RollbackContinues ==
    (/\ rb.pc = "returned"
     /\ \E k \in 1..Len(rollback_results) : rollback_results[k].status = "failed")
    => /\ \A k \in 1..Len(ToCompensate) :
             /\ k <= Len(rb_issued)
             /\ rb_issued[k].attempts >= 1
             /\ k <= Len(rollback_results)
             /\ rollback_results[k].status \in {"completed", "failed"}
       /\ \A k \in 1..Len(rollback_results) :
             rollback_results[k].status = "failed"
             => rb_issued[k].attempts = stop_after_attempt

\* C18 witness: a returned rollback whose first compensating delete failed
\* and whose second one was then made and completed.
C18_Witness ==
    /\ rb.pc = "returned"
    /\ Len(rollback_results) >= 2
    /\ rollback_results[1].status = "failed"
    /\ rollback_results[2].status = "completed"
    /\ rb_issued[2].attempts >= 1

\* C19: validate_plan reports a 'namespace not created before use' issue for
\* each create operation (other than of a namespace) that targets a non-default
\* namespace unless a create-namespace operation for that namespace appears at
\* an earlier position of the plan.
C19_NamespaceOrder ==
    vp.pc = "validated"
    => \A i \in 1..Len(vp_plan.operations) :
          LET ops == vp_plan.operations
          IN (/\ ops[i].action = "CREATE"
              /\ ops[i].resource_type # "namespace"
              /\ ops[i].namespace # "default"
              /\ ~\E j \in 1..(i - 1) :
                     /\ ops[j].action = "CREATE"
                     /\ ops[j].resource_type = "namespace"
                     /\ ops[j].resource_name = ops[i].namespace)
             => \E k \in 1..Len(vp.issues) :
                   vp.issues[k] = "Namespace '" \o ops[i].namespace
                                     \o "' not created before use"

\* C20: validate_plan reports a duplicate-creation issue if and only if the
\* plan contains two create operations with the same (namespace, resource
\* kind, resource name) tuple.
C20_DuplicateCreate ==
    vp.pc = "validated"
    => LET ops == vp_plan.operations
           Reported ==
               \E k \in 1..Len(vp.issues), i \in 1..Len(ops) :
                   vp.issues[k] = "Duplicate resource creation: "
                       \o ops[i].namespace \o "/" \o ops[i].resource_type
                       \o "/" \o ops[i].resource_name
           TwoCreates ==
               \E i, j \in 1..Len(ops) :
                   /\ i < j
                   /\ ops[i].action = "CREATE" /\ ops[j].action = "CREATE"
                   /\ ops[i].namespace = ops[j].namespace
                   /\ ops[i].resource_type = ops[j].resource_type
                   /\ ops[i].resource_name = ops[j].resource_name
       IN Reported <=> TwoCreates

\* C21: the Execute phase is entered only after the Plan phase completed with
\* a plan and the Validate phase reported zero issues; a plan with a
\* validation issue is never handed to the operation executor.
C21_PhaseGating ==
    (wf_pc = "executor" \/ wf_obs.executor_runs > 0)
    => /\ "planned" \in Range(wf_obs.gen_calls)
       /\ state.execution_plan.present
       /\ state.planner_status = "completed"
       /\ wf_obs.issues = 0
       /\ validate_plan(state.execution_plan) = <<>>

\* C21 witness: the executor has run on a validated plan, and (in another
\* branch of the same graph) validation issues lead to the error handler.
C21_Witness ==
    /\ wf_obs.executor_runs > 0
    /\ wf_obs.issues = 0
    /\ Len(state.execution_results) = Len(state.execution_plan.operations)

C27_TerminalAbsorbing ==
    [][\A id \in DOMAIN redis :
          (/\ UniqueId(id) /\ UniqueId(id)'
           /\ redis[id].status \in TerminalStatuses)
          => redis'[id].status = redis[id].status]_vars

\* C28: completed_at is assigned at most once per task: cancel_task (on the
\* record it loaded) and _execute_task (at the end of the run) assign it only
\* while the task's record carries no completed_at.
C28_TimestampsOnce ==
    [][/\ (cancel.pc = "load" /\ cancel'.pc = "persist"
           /\ UniqueId(cancel.task_id))
          => redis[cancel.task_id].completed_at = "None"
       /\ \A e \in 1..Len(tasks) :
             (/\ exec[e].pc = "running" /\ exec'[e].pc = "finalizing"
              /\ UniqueId(tasks[e].task_id))
             => redis[tasks[e].task_id].completed_at = "None"]_vars

\* Occurrences of x in the sequence q
Count(q, x) == Cardinality({i \in 1..Len(q) : q[i] = x})

\* C25: submit persists the new task's record with status pending and adds
\* exactly one queue entry for it, whether or not a worker is free; from the
\* return of submit until the task's run ends, the stored record exists with
\* status pending or executing.
C25_SubmitAdmits ==
    \A e \in 1..Len(tasks) :
        UniqueId(tasks[e].task_id)
        => /\ tasks[e].task_id \in DOMAIN redis
           /\ Count(put_log, e) = (IF e \in submitting THEN 0 ELSE 1)
           /\ Count(task_queue, e) =
                 (IF e \in submitting \/ e \in Range(get_log) THEN 0 ELSE 1)
           /\ exec[e].pc = "none" => redis[tasks[e].task_id].status = "pending"
           /\ exec[e].pc \in {"none", "created", "running"}
              => redis[tasks[e].task_id].status \in {"pending", "executing"}

\* C25 witness: a submit has returned while every worker is busy with another
\* task; the new task waits in the queue with a pending record.
C25_Witness ==
    /\ is_running
    /\ \A w \in Started : workers[w].pc = "await"
    /\ \E e \in 1..Len(tasks) :
          /\ UniqueId(tasks[e].task_id)
          /\ e \notin submitting
          /\ Count(task_queue, e) = 1
          /\ redis[tasks[e].task_id].status = "pending"
          /\ \E w \in Started : workers[w].task # e

\* The worker routines that are running
LiveWorkers(ws) == {w \in Workers : ws[w].pc \in {"get", "await"}}

\* C22: a start(n) call on a stopped manager leaves exactly n worker routines
\* and one reaper routine running.
C22_StartIdempotent ==
    [][\A n \in 0..MaxWorkers :
          (/\ ~is_running /\ is_running'
           /\ workers' = start_workers(workers, is_running, n))
          => /\ Cardinality(LiveWorkers(workers')) = n
             /\ reaper' = "sleep"]_vars

\* C23: once a stop call has returned, whether before any start, after a
\* start or right after another stop, the manager is marked not running and
\* no worker or reaper routine is running.
C23_StopSafe ==
    stopper.pc = "returned"
    => /\ ~is_running
       /\ LiveWorkers(workers) = {}
       /\ reaper = "none"
       /\ \A id \in TaskIds : running_tasks[id] = 0

\* C23 witness: stop has returned after cancelling a worker in the middle of
\* a run; the worker and the reaper are gone.
C23_Witness ==
    /\ stopper.pc = "returned"
    /\ reaper = "none"
    /\ \A w \in Workers : workers[w].pc = "none"
    /\ \E e \in 1..Len(tasks) :
          /\ exec[e].pc = "cancelled"
          /\ tasks[e].status = "executing"

\* C24: once stop has returned no run is in progress, and every task whose
\* run had marked it executing has a completed, failed or cancelled record.
C24_StopSettles ==
    stopper.pc = "returned"
    => \A e \in 1..Len(tasks) :
          /\ exec[e].pc \in {"none", "done", "cancelled"}
          /\ (exec[e].pc \in {"done", "cancelled"} /\ tasks[e].started_at # None)
             => redis[tasks[e].task_id].status \in TerminalStatuses

\* C30: a read during which a store operation failed answers as it would on
\* an empty store, and a run that has ended has carried its Task to a
\* completed or failed status in memory whatever the store did.
C30_StoreFailures ==
    /\ (reply.failed /\ reply.call = "get_task_status") => reply.value = <<>>
    /\ (reply.failed /\ reply.call = "get_metrics")
       => SubSeq(reply.value, 1, 6) = <<0, 0, 0, 0, 0, 0>>
    /\ \A e \in 1..Len(tasks) :
          exec[e].pc = "done" => tasks[e].status \in {"completed", "failed"}

----------------------------------------------------------------------------
\* Task.to_dict and Task.from_dict through the store

\* TaskStatus values
TaskStatuses == {"pending", "executing", "completed", "failed", "cancelled"}

\* The Task objects the round trip is tried on: built by Task.__init__ and
\* then assigned to as _execute_task and cancel_task do
TaskObjects ==
    {[Task(1, request, priority, timeout) EXCEPT
         !.status = status, !.created_at = created_at,
         !.started_at = started_at, !.completed_at = completed_at,
         !.error = error, !.retry_count = retry_count] :
     request \in {"", "scale web to 3"}, priority \in Priorities,
     timeout \in {None, 60}, status \in TaskStatuses,
     created_at \in 1..MaxClock, started_at \in {None} \cup 1..MaxClock,
     completed_at \in {None} \cup 1..MaxClock,
     error \in {"none", "exception"}, retry_count \in {0, 1}}

InitRoundTripCall ==
    rt \in {[pc |-> "made", task |-> t, loaded |-> NoTask] : t \in TaskObjects}

\* _persist_task(task): json.dumps(task.to_dict()) is stored
rt_persist ==
    /\ rt.pc = "made"
    /\ redis' = _persist_task(redis, rt.task)
    /\ rt' = [rt EXCEPT !.pc = "persisted"]
    /\ UNCHANGED <<is_running, workers, task_queue, running_tasks, tasks, exec,
                   submitting, cancel, put_log, get_log, svcvars,
                   wfvars, agentvars, stmvars>>

\* _load_task(task_id): Task.from_dict(json.loads(data))
rt_load ==
    /\ rt.pc = "persisted"
    /\ rt' = [rt EXCEPT !.pc = "loaded",
                        !.loaded = _load_task(redis, rt.task.task_id)]
    /\ UNCHANGED <<tmvars, wfvars, agentvars, stmvars>>

NextRoundTrip == rt_persist \/ rt_load

InitRoundTrip ==
    /\ InitTaskManager
    /\ InitExecutorIdle
    /\ InitRollbackIdle
    /\ InitPlanIdle
    /\ InitRoundTripCall
    /\ InitSimpleTaskManager

SpecRoundTrip == InitRoundTrip /\ [][NextRoundTrip]_vars


----------------------------------------------------------------------------
\* SimpleTaskManager (task_manager_simple.py)

\* _execute_task's finally block, lines 166-169
simple_cleanup(running, task_id) == running \ {task_id}

\* submit_task lines 101-129 with a generated task_id: the Task is stored
\* with status PENDING, the routine of _execute_task is created (it has not
\* run yet) and registered in running_tasks
simple_submit_task(task_id) ==
    /\ simple.tasks[task_id] = NoSimpleTask
    /\ \A j \in 1..(task_id - 1) : simple.tasks[j] # NoSimpleTask
    /\ simple' = [simple EXCEPT
                     !.tasks[task_id] = [status |-> "pending",
                                         routine |-> "created",
                                         must_cancel |-> FALSE],
                     !.running_tasks = @ \cup {task_id}]
    /\ UNCHANGED <<tmvars, wfvars, agentvars, rtvars>>

\* What _execute_task does from the moment it holds the semaphore (lines
\* 139-169): status RUNNING, then task.func is called; it suspends
\* ("awaits"), or it ends without suspending with a result ("completed") or
\* an exception ("failed") and the finally block removes the registry entry
simple_run(sm, task_id, outcome) ==
    IF outcome = "awaits"
    THEN [sm EXCEPT !.tasks[task_id].status = "running",
                    !.tasks[task_id].routine = "func",
                    !.semaphore = @ - 1]
    ELSE [sm EXCEPT !.tasks[task_id].status = outcome,
                    !.tasks[task_id].routine = "done",
                    !.running_tasks = simple_cleanup(@, task_id)]

\* The first step of the routine: `async with self.semaphore` (line 139)
\* enters when the semaphore is free, and waits in line otherwise
simple_execute_task(task_id, outcome) ==
    /\ simple.tasks[task_id].routine = "created"
    /\ ~simple.tasks[task_id].must_cancel
    /\ simple' =
          IF simple.semaphore > 0 /\ simple.waiters = <<>>
          THEN simple_run(simple, task_id, outcome)
          ELSE [simple EXCEPT !.tasks[task_id].routine = "acquire",
                              !.waiters = Append(@, task_id)]
    /\ UNCHANGED <<tmvars, wfvars, agentvars, rtvars>>

\* The semaphore is free again and its first waiter enters
simple_acquired(outcome) ==
    /\ simple.waiters # <<>>
    /\ simple.semaphore > 0
    /\ LET task_id == Head(simple.waiters)
       IN /\ ~simple.tasks[task_id].must_cancel
          /\ simple' = simple_run([simple EXCEPT !.waiters = Tail(@)],
                                  task_id, outcome)
    /\ UNCHANGED <<tmvars, wfvars, agentvars, rtvars>>

\* The awaited task.func returns or raises (lines 148-164), then the finally
\* block, then the semaphore is released
simple_func_end(task_id, outcome) ==
    /\ simple.tasks[task_id].routine = "func"
    /\ ~simple.tasks[task_id].must_cancel
    /\ simple' = [simple EXCEPT
                     !.tasks[task_id].status = outcome,
                     !.tasks[task_id].routine = "done",
                     !.running_tasks = simple_cleanup(@, task_id),
                     !.semaphore = @ + 1]
    /\ UNCHANGED <<tmvars, wfvars, agentvars, rtvars>>

\* The event loop runs a routine whose cancellation was requested:
\* CancelledError is raised where it is suspended.  Before its first step
\* and in the semaphore's acquire that is outside the try block, so the
\* finally block is not run; in the awaited task.func it passes
\* `except Exception`, the finally block is run and the semaphore released.
simple_cancelled(task_id) ==
    /\ simple.tasks[task_id].must_cancel
    /\ simple.tasks[task_id].routine \in {"created", "acquire", "func"}
    /\ simple' =
          IF simple.tasks[task_id].routine = "func"
          THEN [simple EXCEPT
                   !.tasks[task_id].routine = "done",
                   !.tasks[task_id].must_cancel = FALSE,
                   !.running_tasks = simple_cleanup(@, task_id),
                   !.semaphore = @ + 1]
          ELSE [simple EXCEPT
                   !.tasks[task_id].routine = "done",
                   !.tasks[task_id].must_cancel = FALSE,
                   !.waiters = SelectSeq(@, LAMBDA w : w # task_id)]
    /\ UNCHANGED <<tmvars, wfvars, agentvars, rtvars>>

\* cancel_task lines 189-200: when task_id is in running_tasks the asyncio
\* task is cancelled (a request; nothing for a routine that is done), the
\* Task's status is set to CANCELLED and True is returned; the entry stays
\* in running_tasks.  Otherwise False is returned.
simple_cancel_task(task_id) ==
    /\ simple.calls < MaxCancelCalls
    /\ simple' =
          IF task_id \in simple.running_tasks
          THEN [simple EXCEPT
                   !.tasks[task_id].must_cancel =
                       simple.tasks[task_id].routine # "done",
                   !.tasks[task_id].status = "cancelled",
                   !.calls = @ + 1,
                   !.returned_true[task_id] = @ + 1,
                   !.true_on_terminal =
                       @ \/ simple.tasks[task_id].status \in
                               {"completed", "failed", "cancelled"}]
          ELSE [simple EXCEPT !.calls = @ + 1]
    /\ UNCHANGED <<tmvars, wfvars, agentvars, rtvars>>

NextSimple ==
    \/ \E task_id \in TaskIds : simple_submit_task(task_id)
    \/ \E task_id \in TaskIds, outcome \in {"awaits", "completed", "failed"} :
          simple_execute_task(task_id, outcome)
    \/ \E outcome \in {"awaits", "completed", "failed"} :
          simple_acquired(outcome)
    \/ \E task_id \in TaskIds, outcome \in {"completed", "failed"} :
          simple_func_end(task_id, outcome)
    \/ \E task_id \in TaskIds : simple_cancelled(task_id)
    \/ \E task_id \in TaskIds : simple_cancel_task(task_id)

SpecSimple == Init /\ [][NextSimple]_vars

\* C39: in every reachable state of the SimpleTaskManager, running_tasks
\* contains only ids of tasks whose status is pending or running, so
\* cancel_task returns True at most once per task and never for a task that
\* is already completed, failed or cancelled, including a task cancelled
\* while it was waiting for the concurrency semaphore.
C39_CancelBookkeeping ==
    /\ \A task_id \in simple.running_tasks :
          simple.tasks[task_id].status \in {"pending", "running"}
    /\ \A task_id \in TaskIds : simple.returned_true[task_id] <= 1
    /\ ~simple.true_on_terminal

\* C33: when a task is cancelled while one of its backend calls is in flight,
\* that call is allowed to finish and its ExecutionResult is recorded, and no
\* further operation of that task is started afterwards.  After the
\* cancellation nothing of the call can run any more, so the result of every
\* operation that was in flight has to be in the returned list by then.
C33_CooperativeCancel ==
    ex_obs.cancelled =>
        /\ \A i \in ex_obs.in_flight :
              /\ i <= Len(execution_results)
              /\ execution_results[i].operation = ex_operations[i]
        /\ \A i \in 1..Len(op_run) : op_run[i].pc \in {"done", "cancelled"}

\* C37: one call of execute on a state with a plan sets the executor status
\* to completed if and only if none of that call's results failed and to
\* failed otherwise, appends that call's results to the state's results in
\* plan order, and appends exactly one error per failed operation; with no
\* plan it sets failed and appends one error, and no operation is run.
C37_ExecuteOutcome ==
    [][(wf_pc = "executor"
        /\ wf_obs'.executor_runs = wf_obs.executor_runs + 1)
       => IF ~state.execution_plan.present
          THEN /\ state'.executor_status = "failed"
               /\ state'.errors =
                     Append(state.errors, "No execution plan available")
               /\ state'.execution_results = state.execution_results
               /\ wf_obs'.operations_run = wf_obs.operations_run
          ELSE LET ops == state.execution_plan.operations
                   before == Len(state.execution_results)
                   new == SubSeq(state'.execution_results, before + 1,
                                 Len(state'.execution_results))
                   nfailed == Cardinality({i \in 1..Len(new) :
                                              new[i].status = "failed"})
               IN /\ SubSeq(state'.execution_results, 1, before) =
                        state.execution_results
                  /\ Len(new) = Len(ops)
                  /\ \A i \in 1..Len(ops) :
                        /\ new[i].operation = ops[i]
                        /\ new[i].status \in {"completed", "failed"}
                  /\ state'.executor_status =
                        (IF nfailed = 0 THEN "completed" ELSE "failed")
                  /\ Len(state'.errors) = Len(state.errors) + nfailed
                  /\ SubSeq(state'.errors, 1, Len(state.errors)) =
                        state.errors]_vars

\* C37 witness: a call on a plan of two different operations has returned,
\* both failed: two results in plan order after the earlier result, status
\* failed, two errors after the earlier error.
C37_Witness ==
    /\ wf_obs.executor_runs = 1
    /\ wf_obs.failures = 2
    /\ Len(state.execution_plan.operations) = 2
    /\ state.execution_plan.operations[1] # state.execution_plan.operations[2]
    /\ Len(state.execution_results) = 3
    /\ state.execution_results[2].operation =
          state.execution_plan.operations[1]
    /\ state.execution_results[3].operation =
          state.execution_plan.operations[2]
    /\ state.executor_status = "failed"
    /\ Len(state.errors) = 3

\* C38: the Task loaded after a persist has the task_id, request, priority,
\* status, timeout, created_at, started_at, completed_at, error and
\* retry_count of the Task that was persisted.
C38_RoundTrip ==
    rt.pc = "loaded"
    => /\ rt.loaded.task_id = rt.task.task_id
       /\ rt.loaded.request = rt.task.request
       /\ rt.loaded.priority = rt.task.priority
       /\ rt.loaded.status = rt.task.status
       /\ rt.loaded.timeout = rt.task.timeout
       /\ rt.loaded.created_at = rt.task.created_at
       /\ rt.loaded.started_at = rt.task.started_at
       /\ rt.loaded.completed_at = rt.task.completed_at
       /\ rt.loaded.error = rt.task.error
       /\ rt.loaded.retry_count = rt.task.retry_count

\* C38 witness: a failed Task with an empty request, the default timeout, an
\* error and all three timestamps set and different from the clock has been
\* persisted and loaded.
C38_Witness ==
    /\ rt.pc = "loaded"
    /\ rt.task.status = "failed"
    /\ rt.task.request = ""
    /\ rt.task.timeout = task_timeout_seconds
    /\ rt.task.created_at = 2
    /\ rt.task.started_at = 2
    /\ rt.task.completed_at = 3
    /\ rt.task.error = "exception"
    /\ rt.task.retry_count = 1
    /\ redis[1].completed_at = isoformat(3)

\* The stored records a listing with this status argument is to show
Matching(status) ==
    {k \in DOMAIN redis : status = "None" \/ redis[k].status = status}

\* C32: a listing holds stored records that match the status filter, each
\* once, newest first by created_at; it holds all of them when they are at
\* most limit, and otherwise limit of them, none older than one left out.
C32_ListNewestFirst ==
    (reply.call = "list_tasks" /\ ~reply.failed)
    => LET status == reply.args[1]
           limit == reply.args[2]
           page == reply.value
           created(d) == fromisoformat(d.created_at)
           shown == {page[i].task_id : i \in 1..Len(page)}
       IN /\ \A i \in 1..Len(page) :
                /\ page[i].task_id \in Matching(status)
                /\ page[i] = redis[page[i].task_id]
          /\ \A i, j \in 1..Len(page) :
                /\ i < j => created(page[i]) >= created(page[j])
                /\ i # j => page[i].task_id # page[j].task_id
          /\ Len(page) = (IF Cardinality(Matching(status)) < limit
                          THEN Cardinality(Matching(status)) ELSE limit)
          /\ \A k \in Matching(status) \ shown, i \in 1..Len(page) :
                created(page[i]) >= created(redis[k])

\* C32 witness: two completed records of different age are stored and a
\* listing of the completed tasks with limit 1 has returned the newer one.
C32_Witness ==
    /\ reply.call = "list_tasks"
    /\ reply.args = <<"completed", 1>>
    /\ Len(reply.value) = 1
    /\ Cardinality(Matching("completed")) = 2
    /\ \E k \in Matching("completed") :
          redis[k].created_at # reply.value[1].created_at

\* C34: while the manager is running every worker routine that start created
\* is alive, waiting for the queue or driving a run, whatever was cancelled.
C34_PoolPreserved ==
    (is_running /\ stopper.pc = "idle") => LiveWorkers(workers) = Started

\* The runs in progress
InProgress ==
    {e \in 1..Len(exec) :
        exec[e].pc \in {"created", "running", "finalizing",
                        "finalizing_cancelled"}}

\* C36: the runs in progress are at most as many as the workers that start
\* created, each is driven by one worker and no worker drives two, and a
\* running_tasks entry belongs to a task of that id whose worker has not yet
\* come back from its run.
C36_InFlightBound ==
    /\ Cardinality(InProgress) <= Cardinality(Started)
    /\ \A e \in InProgress :
          Cardinality({w \in Workers : workers[w].pc = "await"
                                       /\ workers[w].task = e}) = 1
    /\ \A id \in TaskIds :
          running_tasks[id] # 0
          => /\ tasks[running_tasks[id]].task_id = id
             /\ \E w \in Workers : /\ workers[w].pc = "await"
                                   /\ workers[w].task = running_tasks[id]

\* C36 witness: cancel_task has cancelled one run and removed its entry
\* while another worker drives a run that is registered in running_tasks.
C36_Witness ==
    /\ cancel.pc = "returned"
    /\ \E e \in 1..Len(exec) :
          /\ exec[e].pc = "cancelled"
          /\ tasks[e].task_id = cancel.task_id
          /\ running_tasks[cancel.task_id] = 0
    /\ \E e \in InProgress : running_tasks[tasks[e].task_id] = e

\* C35: while the manager is running, every task whose submit has returned
\* is eventually dequeued by a worker and has a completed, failed or
\* cancelled record.
C35_EventuallySettled ==
    \A e \in 1..MaxTasks :
        (is_running /\ Len(tasks) >= e /\ e \notin submitting)
        ~> (/\ e \in Range(get_log)
            /\ redis[tasks[e].task_id].status \in TerminalStatuses)

\* C31: every record the reaper has deleted was, when it was deleted, the
\* record of a completed, failed or cancelled task whose completed_at lay
\* more than the retention window back.
C31_ReaperSafety ==
    \A i \in 1..Len(reaped) :
        /\ reaped[i].record.status \in TerminalStatuses
        /\ reaped[i].record.completed_at # "None"
        /\ fromisoformat(reaped[i].record.completed_at)
              < reaped[i].at - retention

====
